---- MODULE Spec2Model ----
(***************************************************************************)
(* Knowledge Agent backend: the indexing scheduler and pipeline            *)
(* (KnowledgeSchedulerService, KnowledgeIndexerService, VectorStoreService,*)
(* DocumentContentService) and the knowledge_search chat tool              *)
(* (KnowledgeSearchTool).                                                  *)
(*                                                                         *)
(* JavaScript runs each piece of code between two awaits atomically, so    *)
(* every action below is one such piece: it starts where a promise         *)
(* resolves (or a timer / request arrives) and ends at the next await.     *)
(***************************************************************************)
EXTENDS Integers, Sequences, FiniteSets, TLC

VARIABLES
  rawEnabled,      \* what ConfigService.get('KNOWLEDGE_INDEXER_ENABLED') returns
  initPc,          \* onModuleInit: "idle" | "awaitRun" | "done"
  intervalHandle,  \* KnowledgeSchedulerService.intervalHandle is non-null
  isRunning,       \* KnowledgeSchedulerService.isRunning
  destroyed,       \* onModuleDestroy has run
  nCalls,          \* runIndexer invocations so far (the id of the latest)
  passes,          \* in-flight pipeline passes: call id -> locals of the pass
  last,            \* the runIndexer call that returned most recently
  hist,            \* history of the scheduler, for the temporal claims
  index,           \* the Azure AI Search index: chunk id -> stored chunk
  userAccess,      \* documents the chat user may read, as the provider sees it
  searchIndex,     \* the index as a query sees it: stored chunks with scores
  reindexed,       \* documents re-indexed so far, as the tool sees the index
  tools,           \* KnowledgeSearchTool instances, one per chat request
  calls,           \* KnowledgeSearchTool._call invocations and their locals
  embedCall,       \* one generateEmbeddings call, followed on its own
  chat,            \* one POST /api/chat request, from controller to response
  chunker,         \* one chunkText call: its arguments and locals
  cleaner,         \* one cleanText call and the call on its output
  chunkIds,        \* generateChunkId for the chunks of two documents
  guard,           \* one HTTP request at AzureADGuard.canActivate
  replacer         \* one document's chunks replaced in an index, twice

schedVars == <<rawEnabled, initPc, intervalHandle, isRunning, destroyed,
               nCalls, passes, last, hist, index>>

searchVars == <<userAccess, searchIndex, reindexed, tools, calls>>

embedVars == <<embedCall>>

chatVars == <<chat>>

\* the calls of pure functions that are followed on their own
libVars == <<chunker, cleaner, chunkIds, guard, replacer>>

vars == <<schedVars, searchVars, embedVars, chatVars, libVars>>

----------------------------------------------------------------------------
(* Bounds of the model *)

\* runIndexer invocations explored (startup, ticks and manual triggers)
MaxCalls == 3

\* chat requests explored (each builds one KnowledgeSearchTool)
MaxTools == 2

\* knowledge_search calls explored, over all chat requests
MaxSearchCalls == 2

\* changes of the index explored while the chat tool is in use
MaxReindex == 1

\* texts handed to one generateEmbeddings call followed on its own
MaxTexts == 33

\* characters of the texts chunked exhaustively
MaxShortText == 3

\* characters of the texts cleaned
MaxCleanText == 6

\* characters of a document id, and chunks of a document, given an id
MaxIdLength == 2
MaxChunkIndex == 1

\* options.topK of the tool, scaled down (the chat service passes 5)
TopK == 2

\* messages in the conversation of a chat request
MaxMessages == 2

----------------------------------------------------------------------------
(* JavaScript values that reach a truthiness test *)

JsUndefined == [t |-> "undefined"]
JsString(s) == [t |-> "string", s |-> s]
JsBool(b) == [t |-> "boolean", b |-> b]

Truthy(v) ==
  CASE v.t = "undefined" -> FALSE
    [] v.t = "string" -> v.s # ""
    [] v.t = "boolean" -> v.b

\* a || b
JsOr(a, b) == IF Truthy(a) THEN a ELSE b

\* a ?? b
JsNullish(a, b) == IF a.t = "undefined" THEN b ELSE a

\* process.env values are strings; an unset variable reads as undefined
\* ("true" behaves as "false" does: both are non-empty strings)
EnvValues == {JsUndefined, JsString("false")}

\* ConfigurationService.configuration.KNOWLEDGE_INDEXER_ENABLED
KnowledgeIndexerEnabled == JsOr(rawEnabled, JsBool(TRUE))

----------------------------------------------------------------------------
(* Documents and document chunks *)

\* Document ids are strings, modelled as sequences of characters.  "/" stands
\* for every character outside [a-zA-Z0-9-_].
D1 == <<"a", "/">>
D2 == <<"b">>
Docs == {D1, D2}

\* KnowledgeDocument.title
Title(d) == IF d = D1 THEN "title-1" ELSE "title-2"

\* the characters [a-zA-Z0-9-_] of the model's alphabet
UrlSafeChars == {"a", "b", "-", "_"}

\* documentId.replace(/[^a-zA-Z0-9-_]/g, '_')
SafeDocId(documentId) ==
  [k \in 1..Len(documentId) |->
     IF documentId[k] \in UrlSafeChars THEN documentId[k] ELSE "_"]

\* `${safeDocId}_chunk_${chunkIndex}`
GenerateChunkId(documentId, chunkIndex) ==
  <<SafeDocId(documentId), "_chunk_", chunkIndex>>

Min(a, b) == IF a < b THEN a ELSE b

\* content.length < 50 is "insufficient content"
MinContentLength == 50

\* deleteDocumentChunks searches with top: 1000
DeleteTop == 1000

\* upsertChunks sends batches of 1000
UpsertBatchSize == 1000

\* What extractContent can resolve to: the text's length and the number of
\* chunks chunkText makes of it (chunkText gives at least one chunk for every
\* cleaned text of 50 characters or more).
EmptyContent == [len |-> 0, n |-> 0]
Contents ==
  { EmptyContent,
    [len |-> MinContentLength - 1, n |-> 1],
    [len |-> MinContentLength, n |-> 1],
    [len |-> 1300000, n |-> DeleteTop + 1] }

\* ChunkingService.chunkText(content).length
ChunkCount(content) == content.n

----------------------------------------------------------------------------
(* The vector index.  A stored chunk is (id, documentId, chunkIndex, gen),   *)
(* gen being the runIndexer call that wrote it (it stands for chunkText,     *)
(* embedding and indexedAt).  The index is kept as a set of runs: a run     *)
(* [documentId, lo, hi, gen] is the chunks with ids                          *)
(* GenerateChunkId(documentId, lo..hi), all written for documentId by gen.   *)
(* Runs with the same id prefix never overlap (id is the key), and adjacent  *)
(* runs of one writer are merged, so every index has one representation.    *)

Run(d, lo, hi, g) == [documentId |-> d, lo |-> lo, hi |-> hi, gen |-> g]

RunSize(r) == r.hi - r.lo + 1

\* the ids of the chunks of a run
RunIds(r) == {GenerateChunkId(r.documentId, k) : k \in r.lo..r.hi}

SameKey(r, d) == SafeDocId(r.documentId) = SafeDocId(d)

RECURSIVE CountChunks(_)
CountChunks(runs) ==
  IF runs = {} THEN 0
  ELSE LET r == CHOOSE x \in runs : TRUE
       IN RunSize(r) + CountChunks(runs \ {r})

Mergeable(r, s) ==
  /\ r.documentId = s.documentId
  /\ r.gen = s.gen
  /\ r.hi + 1 = s.lo

RECURSIVE Coalesce(_)
Coalesce(runs) ==
  IF \E r, s \in runs : Mergeable(r, s)
  THEN LET pair == CHOOSE q \in runs \X runs : Mergeable(q[1], q[2])
       IN Coalesce((runs \ {pair[1], pair[2]})
                     \cup {[pair[1] EXCEPT !.hi = pair[2].hi]})
  ELSE runs

\* what is left of run r when the chunk indexes lo..hi are taken out of it
CutRun(r, lo, hi) ==
  (IF r.lo < lo THEN {[r EXCEPT !.hi = IF r.hi < lo THEN r.hi ELSE lo - 1]} ELSE {})
  \cup
  (IF r.hi > hi THEN {[r EXCEPT !.lo = IF r.lo > hi THEN r.lo ELSE hi + 1]} ELSE {})

\* searchClient.mergeOrUploadDocuments(batch) for the chunks lo..hi of
\* document d written by call g: a chunk with the same id is replaced
MergeOrUpload(idx, d, lo, hi, g) ==
  IF lo > hi THEN idx
  ELSE Coalesce(
         UNION {IF SameKey(r, d) THEN CutRun(r, lo, hi) ELSE {r} : r \in idx}
         \cup {Run(d, lo, hi, g)})

\* the chunks whose documentId field equals d
ChunksOf(idx, d) == {r \in idx : r.documentId = d}

RECURSIVE KeepHigh(_, _)
\* the e chunks with the highest chunk indexes of the runs
KeepHigh(runs, e) ==
  IF e <= 0 \/ runs = {} THEN {}
  ELSE LET r == CHOOSE x \in runs : \A y \in runs : y.hi <= x.hi
       IN IF RunSize(r) <= e
          THEN {r} \cup KeepHigh(runs \ {r}, e - RunSize(r))
          ELSE {[r EXCEPT !.lo = r.hi - e + 1]}

RECURSIVE KeepLow(_, _)
\* the e chunks with the lowest chunk indexes of the runs
KeepLow(runs, e) ==
  IF e <= 0 \/ runs = {} THEN {}
  ELSE LET r == CHOOSE x \in runs : \A y \in runs : x.lo <= y.lo
       IN IF RunSize(r) <= e
          THEN {r} \cup KeepLow(runs \ {r}, e - RunSize(r))
          ELSE {[r EXCEPT !.hi = r.lo + e - 1]}

\* The order in which search('*', {filter, top}) lists equally scored chunks
\* is the service's choice: the model takes ascending and descending chunk
\* index as the two orders.
PageOrders == {"ascending", "descending"}

\* VectorStoreService.deleteDocumentChunks(documentId), when neither of its
\* two requests fails: the ids of one page of at most DeleteTop matching
\* chunks are collected and deleted
DeleteDocumentChunks(idx, documentId, order) ==
  LET matched == ChunksOf(idx, documentId)
      excess == CountChunks(matched) - DeleteTop
  IN (idx \ matched)
       \cup (IF order = "ascending" THEN KeepHigh(matched, excess)
                                     ELSE KeepLow(matched, excess))

----------------------------------------------------------------------------
(* EmbeddingService.generateEmbeddings                                      *)
(*                                                                          *)
(* The texts of a call are numbered 0..n-1.  A vector is known by the text  *)
(* it embeds and by its length; vectors are kept in segments               *)
(* [lo, hi, dim]: the vectors of the texts lo..hi, each of length dim.      *)

\* const batchSize = 16
BatchSize == 16

\* the length of a vector of the embedding deployment (the index field is
\* declared with vectorSearchDimensions: 1536)
EmbeddingDimensions == 1536

Segment(lo, hi, dim) == [lo |-> lo, hi |-> hi, dim |-> dim]

\* the number of batches the loop makes of n texts
NumBatches(n) == (n + BatchSize - 1) \div BatchSize

\* How the upstream embedder behaves during one call: it answers every
\* request with one vector of the right length per input, in order, except
\* (at # 0) the request number `at`, which it fails, answers with one
\* vector too few, or answers with vectors of another length.
WellBehaved == [at |-> 0, how |-> "in order"]

Deviations == {"throws", "one vector short", "wrong length"}

Upstreams(n) ==
  {WellBehaved} \cup
  {[at |-> k, how |-> h] : k \in 1..NumBatches(n), h \in Deviations}

\* this.client.embeddings.create({input: texts lo..hi}), the request number
\* batchNo of the call: response.data, or a rejection
CreateEmbeddings(batchNo, lo, hi, upstream) ==
  IF upstream.at # batchNo
  THEN [threw |-> FALSE, data |-> <<Segment(lo, hi, EmbeddingDimensions)>>]
  ELSE CASE upstream.how = "throws" ->
              [threw |-> TRUE, data |-> <<>>]
         [] upstream.how = "one vector short" ->
              [ threw |-> FALSE,
                data |-> IF lo = hi THEN <<>>
                         ELSE <<Segment(lo, hi - 1, EmbeddingDimensions)>> ]
         [] upstream.how = "wrong length" ->
              [ threw |-> FALSE,
                data |-> <<Segment(lo, hi, EmbeddingDimensions - 1)>> ]

\* a loop that goes on with the next batch after a failed one
RECURSIVE GenerateEmbeddingsSkippingFailures(_, _, _, _)
GenerateEmbeddingsSkippingFailures(n, i, upstream, acc) ==
  IF i >= n THEN acc
  ELSE LET hi == Min(i + BatchSize, n) - 1
           response == CreateEmbeddings(Len(acc.requests) + 1, i, hi, upstream)
           sent == Append(acc.requests, <<i, hi>>)
       IN  IF response.threw
           THEN GenerateEmbeddingsSkippingFailures(
                  n, i + BatchSize, upstream,
                  [threw |-> FALSE, results |-> acc.results, requests |-> sent])
           ELSE GenerateEmbeddingsSkippingFailures(
                  n, i + BatchSize, upstream,
                  [ threw |-> FALSE, results |-> acc.results \o response.data,
                    requests |-> sent ])

\* for (let i = 0; i < texts.length; i += batchSize): the batch
\* texts.slice(i, i + batchSize) is sent and every item of the response is
\* pushed to results; a failed request is logged and rethrown.
\* acc.requests lists the slices sent so far (history).
RECURSIVE GenerateEmbeddingsLoop(_, _, _, _)
GenerateEmbeddingsLoop(n, i, upstream, acc) ==
  IF i >= n THEN acc
  ELSE LET hi == Min(i + BatchSize, n) - 1
           response == CreateEmbeddings(Len(acc.requests) + 1, i, hi, upstream)
           sent == Append(acc.requests, <<i, hi>>)
       IN  IF response.threw
           THEN [threw |-> TRUE, results |-> <<>>, requests |-> sent]
           ELSE GenerateEmbeddingsLoop(
                  n, i + BatchSize, upstream,
                  [ threw |-> FALSE, results |-> acc.results \o response.data,
                    requests |-> sent ])

\* const results = [], no request sent yet
NoResults == [threw |-> FALSE, results |-> <<>>, requests |-> <<>>]

\* a generateEmbeddings that sends all its texts in one request
GenerateEmbeddingsInOneRequest(n, upstream) ==
  LET response == CreateEmbeddings(1, 0, n - 1, upstream)
  IN  [ threw |-> response.threw, results |-> response.data,
        requests |-> <<<<0, n - 1>>>> ]

\* generateEmbeddings(texts), texts.length = n
GenerateEmbeddings(n, upstream) ==
  IF n = 0 THEN NoResults
  ELSE GenerateEmbeddingsLoop(n, 0, upstream, NoResults)

\* results as an array: element k (from 0) is [text, dim], the vector of
\* that text
RECURSIVE Vectors(_)
Vectors(results) ==
  IF results = <<>> THEN <<>>
  ELSE [k \in 1..(Head(results).hi - Head(results).lo + 1) |->
          [text |-> Head(results).lo + k - 1, dim |-> Head(results).dim]]
       \o Vectors(Tail(results))

\* results.length
RECURSIVE ResultsLength(_)
ResultsLength(results) ==
  IF results = <<>> THEN 0
  ELSE Head(results).hi - Head(results).lo + 1 + ResultsLength(Tail(results))

\* processDocument, lines 181-195: chunk `index` gets
\* embeddings[index].embedding; reading .embedding of undefined throws
BuildDocumentChunks(n, results) ==
  IF ResultsLength(results) < n
  THEN [threw |-> TRUE, documentChunks |-> <<>>]
  ELSE [ threw |-> FALSE,
         documentChunks |->
           [k \in 1..n |-> [ chunkIndex |-> k - 1,
                             embedding |-> Vectors(results)[k] ]] ]

\* What a pass keeps of the generateEmbeddings call of a document (history):
\* the request the upstream failed (0: none), the requests sent, and the
\* length of the array returned
NoEmbed == [at |-> 0, threw |-> FALSE, requests |-> 0, vectors |-> 0]

Embedded(upstream, out) ==
  [ at |-> upstream.at, threw |-> out.threw, requests |-> Len(out.requests),
    vectors |-> ResultsLength(out.results) ]

\* The upstream during a pass: it answers every request properly, or fails
\* the first or the last request of a call.
EmbedFaults(n) ==
  {WellBehaved} \cup
  {[at |-> k, how |-> "throws"] : k \in {1, NumBatches(n)}}

\* generateEmbeddings depends on nothing but the texts and the upstream:
\* how it goes for the chunk counts of Contents, computed once
EmbedOutcomes ==
  [n \in {ChunkCount(c) : c \in Contents} |->
     [upstream \in EmbedFaults(n) |->
        Embedded(upstream, GenerateEmbeddings(n, upstream))]]

NoEmbedCall ==
  [ pc |-> "idle", n |-> 0, upstream |-> WellBehaved,
    out |-> GenerateEmbeddings(0, WellBehaved), documentChunks |-> <<>> ]

InitEmbedIdle == embedCall = NoEmbedCall

\* no chat request is followed
NoChat ==
  [ pc |-> "idle", messages |-> <<>>, contextSearchMode |-> JsUndefined,
    rawDefault |-> JsUndefined, searchMode |-> "", tools |-> <<>>,
    body |-> [status |-> "none"] ]

InitChatIdle == chat = NoChat

\* no call of a pure function is followed
NoChunker == [pc |-> "idle"]
NoCleaner == [pc |-> "idle"]
NoChunkIds == [pc |-> "idle"]
NoGuard == [pc |-> "idle"]
NoReplacer == [pc |-> "idle"]

InitLibIdle ==
  /\ chunker = NoChunker
  /\ cleaner = NoCleaner
  /\ chunkIds = NoChunkIds
  /\ guard = NoGuard
  /\ replacer = NoReplacer

\* generateEmbeddings settles
EmbedCallSettles ==
  /\ embedCall.pc = "called"
  /\ LET out == GenerateEmbeddings(embedCall.n, embedCall.upstream)
     IN  embedCall' = [embedCall EXCEPT
                         !.out = out,
                         !.pc = IF out.threw THEN "rejected" ELSE "resolved"]
  /\ UNCHANGED <<schedVars, searchVars, chatVars, libVars>>

\* processDocument builds documentChunks and goes on to the delete and the
\* upsert of them, unless building them throws
BuildChunks ==
  /\ embedCall.pc = "resolved"
  /\ embedCall.n > 0
  /\ LET built == BuildDocumentChunks(embedCall.n, embedCall.out.results)
     IN  embedCall' = [embedCall EXCEPT
                         !.documentChunks = built.documentChunks,
                         !.pc = IF built.threw THEN "type error" ELSE "store"]
  /\ UNCHANGED <<schedVars, searchVars, chatVars, libVars>>

----------------------------------------------------------------------------
(* The locals of one pass of runIndexingPipeline, run by runIndexer call id *)

NewPass(origin, skip, busy) ==
  [ origin |-> origin,        \* "startup" | "tick" | "run" | "test"
    skip |-> skip,            \* options.skipEmbeddings is truthy
    arrivedBusy |-> busy,     \* another pass was in flight when it was called
    pc |-> "search",
    docs |-> <<>>,            \* documents
    fate |-> <<>>,            \* what became of the documents iterated so far
    n |-> 0,                  \* documentChunks.length of the current document
    sent |-> 0,               \* upsertChunks: the loop variable i
    itemFailed |-> FALSE,     \* an item of an upsert batch did not succeed
    deleted |-> FALSE,        \* deleteDocumentChunks has completed for it
    xerr |-> "none",          \* the error extractContent met and caught for it
    len |-> 0,                \* content.length of the current document
    embed |-> NoEmbed,        \* how generateEmbeddings went for it
    processed |-> 0,          \* documentsProcessed
    totalChunks |-> 0,        \* totalChunks
    errors |-> <<>> ]         \* errors

\* the document the for loop is at
CurDoc(p) == p.docs[Len(p.fate) + 1]

ErrorEntry(kind, title, msg) == [kind |-> kind, title |-> title, msg |-> msg]

\* `Failed to process ${document.title}: ${error.message}`
FailedToProcess(d, msg) == ErrorEntry("Failed to process", Title(d), msg)

Result(found, processed, chunks, errors) ==
  [ documentsFound |-> found, documentsProcessed |-> processed,
    chunksCreated |-> chunks, errors |-> errors ]

\* what runIndexer returns when isRunning is set
AlreadyRunningResult ==
  Result(0, 0, 0, <<ErrorEntry("Indexer already running", "", "")>>)

\* what runIndexer returns when runIndexingPipeline threw
PipelineThrewResult(msg) == Result(0, 0, 0, <<ErrorEntry(msg, "", "")>>)

\* the result runIndexingPipeline builds after its loop
PipelineResult(p) == Result(Len(p.docs), p.processed, p.totalChunks, p.errors)

\* the end of one iteration of the loop over the documents
EndIteration(p, entry) ==
  LET q == [p EXCEPT !.fate = Append(@, entry), !.n = 0, !.sent = 0,
                     !.itemFailed = FALSE, !.deleted = FALSE, !.xerr = "none",
                     !.len = 0, !.embed = NoEmbed]
  IN [q EXCEPT !.pc = IF Len(q.fate) < Len(q.docs) THEN "extract" ELSE "finish"]

Fate(p, kind, stage, n) ==
  [ doc |-> CurDoc(p), kind |-> kind, stage |-> stage, n |-> n, sent |-> p.sent,
    itemFailed |-> p.itemFailed, deleted |-> p.deleted, xerr |-> p.xerr,
    len |-> p.len, embed |-> p.embed ]

\* a loop that counts every document processDocument returns for
DocumentReturnedAlwaysCounts(p, chunksCreated, stage) ==
  EndIteration([p EXCEPT !.processed = @ + 1,
                         !.totalChunks = @ + chunksCreated],
               Fate(p, "processed", stage, chunksCreated))

\* processDocument returned chunksCreated for the current document
DocumentReturned(p, chunksCreated, stage) ==
  IF chunksCreated > 0
  THEN EndIteration([p EXCEPT !.processed = @ + 1,
                              !.totalChunks = @ + chunksCreated],
                    Fate(p, "processed", stage, chunksCreated))
  ELSE EndIteration(p, Fate(p, "skipped", stage, 0))

\* a loop whose catch block ends the pass
DocumentThrewAborts(p, stage) ==
  [p EXCEPT !.errors = Append(@, FailedToProcess(CurDoc(p), stage)),
            !.fate = Append(@, Fate(p, "failed", stage, p.n)),
            !.pc = "finish"]

\* processDocument threw for the current document: the catch of the loop
DocumentThrew(p, stage) ==
  EndIteration([p EXCEPT !.errors = Append(@, FailedToProcess(CurDoc(p), stage))],
               Fate(p, "failed", stage, p.n))

----------------------------------------------------------------------------
(* Initial state: the services have been constructed, nothing has run *)

NoCall ==
  [ id |-> 0, origin |-> "none", skip |-> FALSE, arrivedBusy |-> FALSE,
    docs |-> <<>>, fate |-> <<>>, result |-> Result(0, 0, 0, <<>>) ]

NoPasses == [x \in {} |-> NoCall]

InitSched ==
  /\ rawEnabled \in EnvValues
  /\ initPc = "idle"
  /\ intervalHandle = FALSE
  /\ isRunning = FALSE
  /\ destroyed = FALSE
  /\ nCalls = 0
  /\ passes = NoPasses
  /\ last = NoCall
  /\ hist = [startups |-> 0, startupDone |-> "no", timers |-> 0, rejected |-> {}]
  /\ index = {}

----------------------------------------------------------------------------
(* KnowledgeSchedulerService.runIndexer *)

\* a runIndexer whose guard never sees the flag
AlreadyRunningIgnored == FALSE

\* if (this.isRunning)
AlreadyRunning == isRunning

\* a runIndexer that clears the flag at the end of its try block only
ReturnFromWithoutFinally(id, p, result) ==
  /\ passes' = [x \in DOMAIN passes \ {id} |-> passes[x]]
  /\ last' = [ id |-> id, origin |-> p.origin, skip |-> p.skip,
               arrivedBusy |-> p.arrivedBusy, docs |-> p.docs, fate |-> p.fate,
               result |-> result ]
  /\ isRunning' = (result = PipelineThrewResult("search failed"))
  /\ hist' = IF p.origin = "startup"
             THEN [hist EXCEPT !.startupDone =
                     IF result.errors = <<>> THEN "ok" ELSE "failed"]
             ELSE hist

\* runIndexer returns `result` to its caller; the finally block has run
ReturnFrom(id, p, result) ==
  /\ passes' = [x \in DOMAIN passes \ {id} |-> passes[x]]
  /\ last' = [ id |-> id, origin |-> p.origin, skip |-> p.skip,
               arrivedBusy |-> p.arrivedBusy, docs |-> p.docs, fate |-> p.fate,
               result |-> result ]
  /\ isRunning' = FALSE
  /\ hist' = IF p.origin = "startup"
             THEN [hist EXCEPT !.startupDone =
                     IF result.errors = <<>> THEN "ok" ELSE "failed"]
             ELSE hist

\* the pass of call id goes on as q, or returns when its loop has ended
Commit(id, q) ==
  IF q.pc = "finish"
  THEN ReturnFrom(id, q, PipelineResult(q))
  ELSE /\ passes' = [passes EXCEPT ![id] = q]
       /\ UNCHANGED <<last, isRunning, hist>>

\* runIndexer(options) up to its first await: the guard, then the call of
\* runIndexingPipeline, which runs up to the search request
RunIndexer(origin, skip) ==
  LET id == nCalls + 1
      busy == DOMAIN passes # {}
      p == NewPass(origin, skip, busy)
  IN /\ nCalls < MaxCalls
     /\ nCalls' = id
     /\ IF AlreadyRunning
        THEN /\ last' = [ id |-> id, origin |-> origin, skip |-> skip,
                          arrivedBusy |-> busy, docs |-> <<>>, fate |-> <<>>,
                          result |-> AlreadyRunningResult ]
             /\ hist' = [hist EXCEPT
                           !.rejected = @ \cup {id},
                           !.startups = IF origin = "startup" THEN @ + 1 ELSE @,
                           !.startupDone = IF origin = "startup" THEN "rejected" ELSE @]
             /\ UNCHANGED <<isRunning, passes>>
        ELSE /\ isRunning' = TRUE
             /\ passes' = [x \in DOMAIN passes \cup {id} |->
                             IF x = id THEN p ELSE passes[x]]
             /\ last' = NoCall
             /\ hist' = [hist EXCEPT
                           !.startups = IF origin = "startup" THEN @ + 1 ELSE @]

----------------------------------------------------------------------------
(* KnowledgeIndexerService.runIndexingPipeline, step by step *)

\* what the provider search can return: no hit, one hit, two hits
Corpora == {<<>>, <<D1>>, <<D1, D2>>}

\* searchKnowledgeDocuments resolves or rejects
SearchStep(id) ==
  /\ id \in DOMAIN passes
  /\ passes[id].pc = "search"
  /\ \E outcome \in {<<"throw">>} \cup {<<"hits", c>> : c \in Corpora} :
       LET p == passes[id]
       IN IF outcome[1] = "throw"
          THEN ReturnFrom(id, p, PipelineThrewResult("search failed"))
          ELSE IF Len(outcome[2]) = 0
          THEN ReturnFrom(id, p, Result(0, 0, 0, <<>>))
          ELSE Commit(id, [p EXCEPT !.docs = outcome[2], !.pc = "extract"])
  /\ UNCHANGED <<rawEnabled, initPc, intervalHandle, destroyed,
                 nCalls, index, searchVars, embedVars, chatVars, libVars>>

\* what happens inside extractContent: a download or parse error, or a text
Extractions ==
  {[error |-> e, content |-> EmptyContent] : e \in {"download", "parse"}}
  \cup {[error |-> "none", content |-> c] : c \in Contents}

\* an extractContent that lets its errors through
ExtractContentRethrows(x) ==
  [threw |-> x.error # "none", content |-> x.content]

\* DocumentContentService.extractContent: every error is caught and logged,
\* and '' is returned
ExtractContent(x) ==
  [ threw |-> FALSE,
    content |-> IF x.error # "none" THEN EmptyContent ELSE x.content ]

\* a processDocument that has no test mode
SkipEmbeddingsIgnored(p) == FALSE

\* if (options.skipEmbeddings)
SkipEmbeddings(p) == p.skip

\* a processDocument that stores the new chunks before it deletes the old
NextStageUpsertFirst(stage) ==
  CASE stage = "embed" -> "upsert"
    [] stage = "upsert" -> "delete"
    [] stage = "delete" -> "return"

\* the order of the statements of processDocument after the chunking
NextStage(stage) ==
  CASE stage = "embed" -> "delete"
    [] stage = "delete" -> "upsert"
    [] stage = "upsert" -> "return"

\* processDocument goes on to the statement after `stage`
Advance(p, stage) ==
  IF NextStage(stage) = "return"
  THEN DocumentReturned(p, p.n, "stored")
  ELSE [p EXCEPT !.pc = NextStage(stage)]

\* processDocument from its start to the embedding request
ExtractStep(id) ==
  /\ id \in DOMAIN passes
  /\ passes[id].pc = "extract"
  /\ \E x \in Extractions :
       LET r == ExtractContent(x)
           p == [passes[id] EXCEPT !.xerr = x.error, !.len = r.content.len]
       IN Commit(id,
            IF r.threw THEN DocumentThrew(p, "extract")
            ELSE IF r.content.len < MinContentLength
            THEN DocumentReturned(p, 0, "insufficient content")
            ELSE IF ChunkCount(r.content) = 0
            THEN DocumentReturned(p, 0, "no chunks")
            ELSE IF SkipEmbeddings(p)
            THEN DocumentReturned(p, ChunkCount(r.content), "test mode")
            ELSE [p EXCEPT !.n = ChunkCount(r.content), !.pc = "embed"])
  /\ UNCHANGED <<rawEnabled, initPc, intervalHandle, destroyed,
                 nCalls, index, searchVars, embedVars, chatVars, libVars>>

\* generateEmbeddings(chunkTexts) resolves or rejects
EmbedStep(id) ==
  /\ id \in DOMAIN passes
  /\ passes[id].pc = "embed"
  /\ \E upstream \in EmbedFaults(passes[id].n) :
       LET out == EmbedOutcomes[passes[id].n][upstream]
           p == [passes[id] EXCEPT !.embed = out]
       IN Commit(id, IF out.threw THEN DocumentThrew(p, "embed")
                     ELSE Advance(p, "embed"))
  /\ UNCHANGED <<rawEnabled, initPc, intervalHandle, destroyed,
                 nCalls, index, searchVars, embedVars, chatVars, libVars>>

\* deleteDocumentChunks resolves or rejects (its search or its delete failed)
DeleteStep(id) ==
  /\ id \in DOMAIN passes
  /\ passes[id].pc = "delete"
  /\ \E outcome \in {"search throws", "delete throws"} \cup PageOrders :
       LET p == passes[id]
       IN IF outcome \in PageOrders
          THEN /\ index' = DeleteDocumentChunks(index, CurDoc(p), outcome)
               /\ Commit(id, Advance([p EXCEPT !.deleted = TRUE], "delete"))
          ELSE /\ index' = index
               /\ Commit(id, DocumentThrew(p, "delete"))
  /\ UNCHANGED <<rawEnabled, initPc, intervalHandle, destroyed,
                 nCalls, searchVars, embedVars, chatVars, libVars>>

\* one round of the loop of upsertChunks: a batch is sent; the request
\* fails, succeeds, or succeeds with an item (the first) reported as failed
UpsertStep(id) ==
  /\ id \in DOMAIN passes
  /\ passes[id].pc = "upsert"
  /\ \E outcome \in {"ok", "item failed", "throws"} :
       LET p == passes[id]
           lo == p.sent
           hi == Min(p.sent + UpsertBatchSize, p.n) - 1
           q == [p EXCEPT !.sent = hi + 1,
                          !.itemFailed = @ \/ outcome = "item failed"]
       IN IF outcome = "throws"
          THEN /\ index' = index
               /\ Commit(id, DocumentThrew(p, "upsert"))
          ELSE /\ index' = MergeOrUpload(index, CurDoc(p),
                             IF outcome = "ok" THEN lo ELSE lo + 1, hi, id)
               /\ Commit(id, IF q.sent >= q.n THEN Advance(q, "upsert") ELSE q)
  /\ UNCHANGED <<rawEnabled, initPc, intervalHandle, destroyed,
                 nCalls, searchVars, embedVars, chatVars, libVars>>

----------------------------------------------------------------------------
(* KnowledgeSchedulerService: startup, timer, manual triggers, shutdown *)

\* onModuleInit up to `await this.runIndexer(defaultOptions)`
OnModuleInit ==
  /\ initPc = "idle"
  /\ IF ~Truthy(KnowledgeIndexerEnabled)
     THEN /\ initPc' = "done"
          /\ UNCHANGED <<nCalls, passes, last, isRunning, hist>>
     ELSE /\ initPc' = "awaitRun"
          /\ RunIndexer("startup", FALSE)
  /\ UNCHANGED <<rawEnabled, intervalHandle, destroyed, index, searchVars, embedVars, chatVars, libVars>>

\* an onModuleInit that does not await the first pass
OnModuleInitNoAwait ==
  /\ initPc = "awaitRun"
  /\ initPc' = "done"
  /\ intervalHandle' = TRUE
  /\ hist' = [hist EXCEPT !.timers = @ + 1]
  /\ UNCHANGED <<rawEnabled, isRunning, destroyed, nCalls, passes,
                 last, index, searchVars, embedVars, chatVars, libVars>>

\* onModuleInit after the await: setInterval
OnModuleInitResume ==
  /\ initPc = "awaitRun"
  /\ hist.startupDone # "no"
  /\ initPc' = "done"
  /\ intervalHandle' = TRUE
  /\ hist' = [hist EXCEPT !.timers = @ + 1]
  /\ UNCHANGED <<rawEnabled, isRunning, destroyed, nCalls, passes,
                 last, index, searchVars, embedVars, chatVars, libVars>>

\* the interval timer fires: this.runIndexer(defaultOptions)
TimerTick ==
  /\ intervalHandle
  /\ RunIndexer("tick", FALSE)
  /\ UNCHANGED <<rawEnabled, initPc, intervalHandle, destroyed,
                 index, searchVars, embedVars, chatVars, libVars>>

\* triggerManualRun(options): skipEmbeddings: options?.skipEmbeddings ?? true
TriggerManualRun(origin, skipEmbeddings) ==
  RunIndexer(origin, Truthy(JsNullish(skipEmbeddings, JsBool(TRUE))))

\* The HTTP server listens once every onModuleInit has resolved, until the
\* application is closed.
Listening == initPc = "done" /\ ~destroyed

\* POST /api/admin/knowledge-indexer/run: options = {}
TriggerRun ==
  /\ Listening
  /\ TriggerManualRun("run", JsUndefined)
  /\ UNCHANGED <<rawEnabled, initPc, intervalHandle, destroyed,
                 index, searchVars, embedVars, chatVars, libVars>>

\* POST /api/admin/knowledge-indexer/test: options = {skipEmbeddings: true}
TestIndexing ==
  /\ Listening
  /\ TriggerManualRun("test", JsBool(TRUE))
  /\ UNCHANGED <<rawEnabled, initPc, intervalHandle, destroyed,
                 index, searchVars, embedVars, chatVars, libVars>>

\* onModuleDestroy
OnModuleDestroy ==
  /\ initPc # "idle"
  /\ ~destroyed
  /\ destroyed' = TRUE
  /\ intervalHandle' = FALSE
  /\ UNCHANGED <<rawEnabled, initPc, isRunning, nCalls, passes, last,
                 hist, index, searchVars, embedVars, chatVars, libVars>>

----------------------------------------------------------------------------
(* The knowledge_search chat tool (KnowledgeSearchTool)                     *)
(*                                                                          *)
(* A chat request builds its own tool instance around the user's delegated  *)
(* Graph client.  The index is seen through one query: every stored chunk   *)
(* has the similarity score (in percent) the search service gives it for    *)
(* that query.                                                              *)

\* the knowledge documents, named by their drive item id
KDocs == {"doc1", "doc2", "doc3"}

\* chunk.driveId: doc1 was indexed with its drive id, the others without
DriveId(documentId) == IF documentId = "doc1" THEN "drive1" ELSE ""

\* chunk.webUrl parses as a URL (new URL(chunk.webUrl) does not throw)
WebUrlParses(documentId) == documentId # "doc2"

\* minScore, in percent
MinScore == 60

Scores == {50, 70, 90}

Chunk(documentId, chunkIndex, score) ==
  [documentId |-> documentId, chunkIndex |-> chunkIndex, score |-> score]

\* what the index may hold of one document
ChunkSets(documentId) ==
  { {},
    {Chunk(documentId, 0, 70), Chunk(documentId, 1, 50)},
    {Chunk(documentId, 0, 70), Chunk(documentId, 1, 90)} }

ChunksOfDocs(idx, docs) == {c \in idx : c.documentId \in docs}

\* The search service ranks by score; equal scores are ranked by key.
DocRank(documentId) ==
  CASE documentId = "doc1" -> 1 [] documentId = "doc2" -> 2 [] OTHER -> 3

RankedBefore(a, b) ==
  \/ a.score > b.score
  \/ /\ a.score = b.score
     /\ \/ DocRank(a.documentId) < DocRank(b.documentId)
        \/ /\ a.documentId = b.documentId
           /\ a.chunkIndex < b.chunkIndex

RECURSIVE Ranked(_)
Ranked(chunks) ==
  IF chunks = {} THEN <<>>
  ELSE LET first == CHOOSE a \in chunks :
                      \A b \in chunks \ {a} : RankedBefore(a, b)
       IN  <<first>> \o Ranked(chunks \ {first})

\* VectorStoreService.searchSimilar: the topK nearest chunks, of which those
\* with score >= minScore are returned, best first
SearchSimilar(idx, topK, minScore) ==
  LET nearest == SubSeq(Ranked(idx), 1, Min(topK, Cardinality(idx)))
  IN  SelectSeq(nearest, LAMBDA r : r.score >= minScore)

\* [...new Set(results.map((r) => r.chunk.documentId))]
DocumentIds(results) == {results[i].documentId : i \in DOMAIN results}

\* How the Graph metadata request of a probe can end
ProbeOutcomes ==
  {"resolved", "403", "404", "503", "timeout", "malformed response"}

\* checkDocumentPermission, fail-open variant: only 403 and 404 deny
HasAccessUnlessDenied(outcome) == outcome \notin {"403", "404"}

\* checkDocumentPermission after the cache miss: true when the request
\* resolved; the catch block returns false for 403 / 404 and for any other
\* error (a malformed webUrl throws inside the same try block)
HasAccess(outcome) ==
  CASE outcome = "resolved" -> TRUE
    [] outcome \in {"403", "404"} -> FALSE
    [] OTHER -> FALSE

\* filterByPermissions without the filter
KeepAllResults(results, accessibleDocs) == results

\* filterByPermissions, after Promise.all: the results of accessible documents
FilterByPermissions(results, accessibleDocs) ==
  SelectSeq(results, LAMBDA r : r.documentId \in accessibleDocs)

\* deduplicateByDocument: a Map keeps the keys in order of first insertion
RECURSIVE ByDocument(_, _)
ByDocument(results, byDocument) ==
  IF results = <<>> THEN byDocument
  ELSE LET result == Head(results)
           at == {i \in DOMAIN byDocument :
                    byDocument[i].documentId = result.documentId}
       IN  IF at = {}
           THEN ByDocument(Tail(results), Append(byDocument, result))
           ELSE LET i == CHOOSE j \in at : TRUE
                IN  IF result.score > byDocument[i].score
                    THEN ByDocument(Tail(results),
                                    [byDocument EXCEPT ![i] = result])
                    ELSE ByDocument(Tail(results), byDocument)

\* Array.prototype.sort((a, b) => b.score - a.score): stable, descending
RECURSIVE SortByScore(_)
SortByScore(results) ==
  IF results = <<>> THEN <<>>
  ELSE LET best == CHOOSE i \in DOMAIN results :
                     /\ \A j \in DOMAIN results :
                          results[j].score <= results[i].score
                     /\ \A j \in 1..(i - 1) :
                          results[j].score < results[i].score
           rest == [j \in 1..(Len(results) - 1) |->
                      IF j < best THEN results[j] ELSE results[j + 1]]
       IN  <<results[best]>> \o SortByScore(rest)

\* a deduplicateByDocument that keeps every chunk
KeepEveryChunk(results) == SortByScore(results)

DeduplicateByDocument(results) == SortByScore(ByDocument(results, <<>>))

\* .slice(0, topK)
Slice(results, topK) == SubSeq(results, 1, Min(topK, Len(results)))

\* The strings _call returns.  formatResults lists the sources in order
\* (title, url, site, driveId, itemId, relevance, chunk text), so the string
\* stands in one-to-one relation with the sequence of sources.
NoneInKnowledgeBase ==
  [ text |-> "No relevant information found in the knowledge base for this query.",
    sources |-> <<>> ]

NoneAccessible ==
  [ text |-> "No relevant information found that you have access to view.",
    sources |-> <<>> ]

SearchError(msg) ==
  [text |-> "Error searching knowledge base: " \o msg, sources |-> <<>>]

FormatResults(results) ==
  IF Len(results) = 0
  THEN [text |-> "No relevant information found.", sources |-> <<>>]
  ELSE [text |-> "Found relevant knowledge sources:", sources |-> results]

NoOutput == [text |-> "", sources |-> <<>>]

\* _call from the return of filterByPermissions to the end
Respond(results, accessibleDocs) ==
  LET accessibleResults == FilterByPermissions(results, accessibleDocs)
  IN  IF Len(accessibleResults) = 0 THEN NoneAccessible
      ELSE FormatResults(Slice(DeduplicateByDocument(accessibleResults), TopK))

\* a Map<string, boolean> with no entries
EmptyMap == [d \in {} |-> FALSE]

Put(map, keys, value) ==
  [d \in DOMAIN map \cup keys |-> IF d \in keys THEN value ELSE map[d]]

\* new KnowledgeSearchTool(graphClient, ...): permissionCache is empty.
\* fetched is history: the documents whose metadata request with this
\* tool's Graph client has resolved.
NewTool == [permissionCache |-> EmptyMap, fetched |-> {}]

\* a permission cache that is one map for all tool instances
PermissionCacheOfFirstTool(t) == tools[1].permissionCache

\* this.permissionCache of tool t
PermissionCache(t) == tools[t].permissionCache

\* The locals of one _call on tool t.  seen (the index content the search
\* ran on) and requestOk (per probed document, did the try block of
\* checkDocumentPermission complete) are history.
NewSearchCall(t) ==
  [ tool |-> t, pc |-> "embedding", seen |-> {}, results |-> <<>>,
    pending |-> {}, hasAccess |-> EmptyMap, requestOk |-> EmptyMap,
    output |-> NoOutput ]

Returned(call, output) ==
  [call EXCEPT !.pc = "returned", !.pending = {}, !.output = output]

AccessibleDocs(hasAccess) == {d \in DOMAIN hasAccess : hasAccess[d]}

InitSearchTool ==
  /\ userAccess = {}
  /\ searchIndex = {}
  /\ reindexed = 0
  /\ tools = <<>>
  /\ calls = <<>>

\* ChatService.chat -> buildTools: a tool instance for this request
BuildTools ==
  /\ Len(tools) < MaxTools
  /\ tools' = Append(tools, NewTool)
  /\ UNCHANGED <<schedVars, embedVars, chatVars, libVars, userAccess, searchIndex, reindexed, calls>>

\* the agent invokes knowledge_search: _call runs up to
\* await this.embeddingService.generateEmbedding(query)
Call(t) ==
  /\ t \in DOMAIN tools
  /\ Len(calls) < MaxSearchCalls
  /\ calls' = Append(calls, NewSearchCall(t))
  /\ UNCHANGED <<schedVars, embedVars, chatVars, libVars, userAccess, searchIndex, reindexed, tools>>

\* generateEmbedding settles; on success _call runs up to await searchSimilar
GenerateEmbeddingSettles(c) ==
  /\ c \in DOMAIN calls
  /\ calls[c].pc = "embedding"
  /\ \E ok \in BOOLEAN :
       calls' = [calls EXCEPT ![c] =
                   IF ok THEN [@ EXCEPT !.pc = "searching"]
                   ELSE Returned(@, SearchError("embedding failed"))]
  /\ UNCHANGED <<schedVars, embedVars, chatVars, libVars, userAccess, searchIndex, reindexed, tools>>

\* searchSimilar settles.  With results, filterByPermissions starts: every
\* checkDocumentPermission runs up to its first await in this same step, so
\* all cache lookups happen here; a document without driveId whose webUrl
\* does not parse is decided (and cached) at once, the others are requested.
SearchSettles(c) ==
  /\ c \in DOMAIN calls
  /\ calls[c].pc = "searching"
  /\ \E ok \in BOOLEAN :
       IF ~ok
       THEN /\ calls' = [calls EXCEPT ![c] =
                           Returned(@, SearchError("search failed"))]
            /\ UNCHANGED tools
       ELSE LET t == calls[c].tool
                cache == PermissionCache(t)
                results == SearchSimilar(searchIndex, TopK * 2, MinScore)
                documentIds == DocumentIds(results)
                cached == documentIds \cap DOMAIN cache
                unparsable == {d \in documentIds \ cached :
                                 DriveId(d) = "" /\ ~WebUrlParses(d)}
                requested == documentIds \ (cached \cup unparsable)
                decided == Put([d \in cached |-> cache[d]], unparsable,
                               HasAccess("malformed webUrl"))
                started == [calls[c] EXCEPT
                              !.seen = searchIndex, !.results = results,
                              !.pending = requested, !.hasAccess = decided,
                              !.requestOk = Put(EmptyMap, unparsable, FALSE)]
            IN  /\ tools' = [tools EXCEPT ![t].permissionCache =
                               Put(@, unparsable,
                                   HasAccess("malformed webUrl"))]
                /\ calls' = [calls EXCEPT ![c] =
                      IF Len(results) = 0
                      THEN Returned(started, NoneInKnowledgeBase)
                      ELSE IF requested = {}
                      THEN Returned(started,
                                    Respond(results, AccessibleDocs(decided)))
                      ELSE [started EXCEPT !.pc = "probing"]]
  /\ UNCHANGED <<schedVars, embedVars, chatVars, libVars, userAccess, searchIndex, reindexed>>

\* The Graph request of one probe settles: the rest of
\* checkDocumentPermission; after the last one Promise.all resolves and
\* _call runs to its end.  The provider lets the request succeed only for a
\* document the user may read.
ProbeSettles(c, d) ==
  /\ c \in DOMAIN calls
  /\ calls[c].pc = "probing"
  /\ d \in calls[c].pending
  /\ \E outcome \in ProbeOutcomes :
       /\ outcome = "resolved" => d \in userAccess
       /\ LET t == calls[c].tool
              hasAccess == Put(calls[c].hasAccess, {d}, HasAccess(outcome))
              pending == calls[c].pending \ {d}
              probed == [calls[c] EXCEPT
                           !.pending = pending, !.hasAccess = hasAccess,
                           !.requestOk = Put(@, {d}, outcome = "resolved")]
          IN  /\ tools' = [tools EXCEPT
                             ![t].permissionCache =
                                Put(@, {d}, HasAccess(outcome)),
                             ![t].fetched =
                                IF outcome = "resolved" THEN @ \cup {d} ELSE @]
              /\ calls' = [calls EXCEPT ![c] =
                    IF pending = {}
                    THEN Returned(probed, Respond(probed.results,
                                                  AccessibleDocs(hasAccess)))
                    ELSE probed]
  /\ UNCHANGED <<schedVars, embedVars, chatVars, libVars, userAccess, searchIndex, reindexed>>

\* An indexing pass replaces the chunks of one document (delete, then
\* upsert), or removes or adds the document.
Reindex(d) ==
  /\ reindexed < MaxReindex
  /\ reindexed' = reindexed + 1
  /\ \E chunks \in ChunkSets(d) :
       /\ chunks # ChunksOfDocs(searchIndex, {d})
       /\ searchIndex' = (searchIndex \ ChunksOfDocs(searchIndex, {d}))
                           \cup chunks
  /\ UNCHANGED <<schedVars, embedVars, chatVars, libVars, userAccess, tools, calls>>

\* The tool at work: any index content, any access rights of the user (who
\* may read doc2, the document whose stored webUrl does not parse)
InitSearch ==
  /\ InitSched
  /\ rawEnabled = JsUndefined
  /\ userAccess \in {docs \cup {"doc2"} : docs \in SUBSET {"doc1", "doc3"}}
  /\ searchIndex \in {a \cup b \cup c : a \in ChunkSets("doc1"),
                        b \in ChunkSets("doc2"), c \in ChunkSets("doc3")}
  /\ reindexed = 0
  /\ tools = <<>>
  /\ calls = <<>>
  /\ InitEmbedIdle
  /\ InitChatIdle
  /\ InitLibIdle

NextSearch ==
  \/ BuildTools
  \/ \E t \in 1..MaxTools : Call(t)
  \/ \E c \in 1..MaxSearchCalls : GenerateEmbeddingSettles(c)
  \/ \E c \in 1..MaxSearchCalls : SearchSettles(c)
  \/ \E c \in 1..MaxSearchCalls, d \in KDocs : ProbeSettles(c, d)
  \/ \E d \in KDocs : Reindex(d)

SpecSearch == InitSearch /\ [][NextSearch]_vars

----------------------------------------------------------------------------

\* any number of texts, any behaviour of the upstream
----------------------------------------------------------------------------
(* ChunkingService: chunkText, findBreakPoint, findStartPoint.  A text is a  *)
(* sequence of characters; offsets are JavaScript's (the first character is *)
(* at offset 0).                                                             *)

\* the characters \s matches and trim() removes
IsWhitespace(c) == c \in {" ", "\n", "\t", "\r"}

\* [A-Z]
IsUpperCase(c) == c \in {"A", "B"}

\* [.!?]
IsSentenceEnd(c) == c \in {".", "!", "?"}

\* the text made of unit repeated and cut to length n
Repeat(unit, n) == [i \in 1..n |-> unit[((i - 1) % Len(unit)) + 1]]

\* text.slice(from, to) for 0 <= from, to
TextSlice(text, from, to) == SubSeq(text, from + 1, Min(to, Len(text)))

\* the number of whitespace characters of s from offset i on, up to the
\* first character that is none
WhitespaceRun(s, i) ==
  CHOOSE k \in 0..(Len(s) - i) :
    /\ i + k = Len(s) \/ ~IsWhitespace(s[i + k + 1])
    /\ \A j \in 1..k : IsWhitespace(s[i + j])

\* the number of whitespace characters at the end of s
TrailingWhitespace(s) ==
  CHOOSE k \in 0..Len(s) :
    /\ k = Len(s) \/ ~IsWhitespace(s[Len(s) - k])
    /\ \A j \in 1..k : IsWhitespace(s[Len(s) - j + 1])

\* s.trim()
Trim(s) ==
  IF WhitespaceRun(s, 0) = Len(s) THEN <<>>
  ELSE SubSeq(s, WhitespaceRun(s, 0) + 1, Len(s) - TrailingWhitespace(s))

\* pattern occurs in s at offset i
OccursAt(s, pattern, i) ==
  /\ i + Len(pattern) <= Len(s)
  /\ \A k \in 1..Len(pattern) : s[i + k] = pattern[k]

Occurrences(s, pattern) ==
  {i \in 0..(Len(s) - Len(pattern)) : OccursAt(s, pattern, i)}

\* s.lastIndexOf(pattern)
LastIndexOf(s, pattern) ==
  LET at == Occurrences(s, pattern)
  IN  IF at = {} THEN -1 ELSE CHOOSE i \in at : \A j \in at : j <= i

\* s.indexOf(pattern)
IndexOf(s, pattern) ==
  LET at == Occurrences(s, pattern)
  IN  IF at = {} THEN -1 ELSE CHOOSE i \in at : \A j \in at : i <= j

\* [.!?]\s+ matches at offset i of s and an upper-case letter of s follows
SentenceEndAt(s, i) ==
  /\ i < Len(s)
  /\ IsSentenceEnd(s[i + 1])
  /\ LET run == WhitespaceRun(s, i + 1)
     IN  /\ run >= 1
         /\ i + 1 + run < Len(s)
         /\ IsUpperCase(s[i + 1 + run + 1])

\* s.match(/[.!?]\s+(?=[A-Z])/g): the offsets of the matches
SentenceMatches(s) == {i \in 0..(Len(s) - 1) : SentenceEndAt(s, i)}

\* chunkSize * 0.3, floored
BreakWindow(chunkSize) == (chunkSize * 3) \div 10

\* ChunkingService.findBreakPoint
FindBreakPoint(text, start, idealEnd, chunkSize) ==
  LET searchStart ==
        IF start > idealEnd - BreakWindow(chunkSize) THEN start
        ELSE idealEnd - BreakWindow(chunkSize)
      searchText == TextSlice(text, searchStart, idealEnd)
      paragraphBreak == LastIndexOf(searchText, <<"\n", "\n">>)
      lineBreak == LastIndexOf(searchText, <<"\n">>)
      sentenceMatch == SentenceMatches(searchText)
      lastMatch == CHOOSE i \in sentenceMatch : \A j \in sentenceMatch : j <= i
      lastMatchText ==
        SubSeq(searchText, lastMatch + 1,
               lastMatch + 1 + WhitespaceRun(searchText, lastMatch + 1))
      periodSpace == LastIndexOf(searchText, <<".", " ">>)
      lastSpace == LastIndexOf(searchText, <<" ">>)
  IN  IF paragraphBreak # -1 THEN searchStart + paragraphBreak + 2
      ELSE IF lineBreak # -1 THEN searchStart + lineBreak + 1
      ELSE IF sentenceMatch # {}
      THEN searchStart + LastIndexOf(searchText, lastMatchText)
             + Len(lastMatchText)
      ELSE IF periodSpace # -1 THEN searchStart + periodSpace + 2
      ELSE IF lastSpace # -1 THEN searchStart + lastSpace + 1
      ELSE idealEnd

\* findStartPoint looks at most this far ahead
StartWindow == 100

\* a paragraph start is taken when it is nearer than this
ParagraphStartLimit == 50

\* a line start is taken when it is nearer than this
LineStartLimit == 30

\* ChunkingService.findStartPoint
FindStartPoint(text, idealStart, maxStart) ==
  LET searchEnd == Min(maxStart, idealStart + StartWindow)
      searchText == TextSlice(text, idealStart, searchEnd)
      paragraphStart == IndexOf(searchText, <<"\n", "\n">>)
      lineStart == IndexOf(searchText, <<"\n">>)
  IN  IF SentenceEndAt(searchText, 0)
      THEN idealStart + 2
      ELSE IF paragraphStart # -1 /\ paragraphStart < ParagraphStartLimit
      THEN idealStart + paragraphStart + 2
      ELSE IF lineStart # -1 /\ lineStart < LineStartLimit
      THEN idealStart + lineStart + 1
      ELSE idealStart

\* the defaults of ChunkOptions
DefaultChunkSize == 1500
DefaultChunkOverlap == 200
DefaultMinChunkSize == 100

DefaultOptions ==
  [ chunkSize |-> DefaultChunkSize, chunkOverlap |-> DefaultChunkOverlap,
    minChunkSize |-> DefaultMinChunkSize ]

TextChunk(chunkIndex, text, startOffset, endOffset) ==
  [ index |-> chunkIndex, text |-> text,
    startOffset |-> startOffset, endOffset |-> endOffset ]

\* a chunker that keeps every chunk, however short
KeepChunkOfAnyLength(length, minChunkSize) == TRUE

\* if (chunkText.length >= minChunkSize)
KeepChunk(length, minChunkSize) == length >= minChunkSize

\* a loop that starts the next chunk where the last one ended
NextPositionWithoutOverlap(currentPosition, endPosition, chunkOverlap) ==
  endPosition

\* a loop that does not force the cursor forward
NextPositionByOverlapOnly(currentPosition, endPosition, chunkOverlap) ==
  IF endPosition - chunkOverlap < 0 THEN 0 ELSE endPosition - chunkOverlap

\* Math.max(endPosition - chunkOverlap, currentPosition + 1)
NextPosition(currentPosition, endPosition, chunkOverlap) ==
  IF endPosition - chunkOverlap > currentPosition + 1
  THEN endPosition - chunkOverlap
  ELSE currentPosition + 1

\* the locals of chunkText
ChunkerAt(text, options) ==
  [ pc |-> "called", text |-> text, options |-> options,
    currentPosition |-> 0, chunkIndex |-> 0, chunks |-> <<>>,
    endPosition |-> 0, iterations |-> 0 ]

\* chunkText is called: the early returns for no text and for a text whose
\* trimmed length is below minChunkSize, else the loop is entered
ChunkText ==
  /\ chunker.pc = "called"
  /\ LET text == chunker.text
         trimmed == Trim(text)
     IN  chunker' =
           IF Len(text) = 0 \/ Len(trimmed) < chunker.options.minChunkSize
           THEN [chunker EXCEPT
                   !.pc = "returned",
                   !.chunks = IF Len(text) > 0 /\ Len(trimmed) > 0
                              THEN <<TextChunk(0, trimmed, 0, Len(text))>>
                              ELSE <<>>]
           ELSE [chunker EXCEPT !.pc = "loop"]
  /\ UNCHANGED <<schedVars, searchVars, embedVars, chatVars,
                 cleaner, chunkIds, guard, replacer>>

\* one test of the while condition and, if it holds, one run of the body
ChunkLoop ==
  /\ chunker.pc = "loop"
  /\ LET text == chunker.text
         options == chunker.options
         currentPosition == chunker.currentPosition
         ideal == Min(currentPosition + options.chunkSize, Len(text))
     IN  \E endPosition \in
              {IF ideal < Len(text)
               THEN FindBreakPoint(text, currentPosition, ideal,
                                   options.chunkSize)
               ELSE ideal} :
         \E chunkText \in {Trim(TextSlice(text, currentPosition, endPosition))} :
           LET keep == KeepChunk(Len(chunkText), options.minChunkSize)
               pushed ==
                 [chunker EXCEPT
                    !.iterations = @ + 1,
                    !.endPosition = endPosition,
                    !.chunkIndex = IF keep THEN @ + 1 ELSE @,
                    !.chunks =
                       IF keep
                       THEN Append(@, TextChunk(chunker.chunkIndex, chunkText,
                                                currentPosition, endPosition))
                       ELSE @]
           IN  chunker' =
                 IF currentPosition >= Len(text)
                 THEN [chunker EXCEPT !.pc = "returned"]
                 ELSE IF endPosition >= Len(text)
                 THEN [pushed EXCEPT !.pc = "returned"]
                 ELSE [pushed EXCEPT
                         !.currentPosition =
                            FindStartPoint(
                              text,
                              NextPosition(currentPosition, endPosition,
                                           options.chunkOverlap),
                              endPosition)]
  /\ UNCHANGED <<schedVars, searchVars, embedVars, chatVars,
                 cleaner, chunkIds, guard, replacer>>

\* the characters of the short texts
ShortAlphabet == {"a", "A", " ", "\n", "."}

\* every text of at most MaxShortText characters
ShortTexts == UNION {[1..n -> ShortAlphabet] : n \in 0..MaxShortText}

\* small options: chunkOverlap may reach or exceed chunkSize
SmallOptions ==
  [chunkSize : 1..4, chunkOverlap : 0..4, minChunkSize : 0..2]

AlphaBetaGamma ==
  <<"a", "l", "p", "h", "a", " ", "b", "e", "t", "a", " ",
    "g", "a", "m", "m", "a">>

\* the units the long texts are made of: letters only, words, sentences,
\* lines and paragraphs
LongUnits ==
  { <<"a">>,
    AlphaBetaGamma,
    AlphaBetaGamma \o <<" ">>,
    <<"A", "a", "a", " ", "a", "a", ".", " ">>,
    <<"a", "a", "a", "a", "a", "a", "a", "\n">>,
    Repeat(<<"a">>, 47) \o <<".", "\n", "\n">> }

\* long texts: a unit repeated, then a run of spaces, then letters
LongTexts ==
  { Repeat(unit, n) \o Repeat(<<" ">>, gap) \o Repeat(<<"b">>, tail) :
      unit \in LongUnits, n \in {99, 100, 1240, 1500, 2900, 4500},
      gap \in {0, 1, 200}, tail \in {0, 70, 300} }

\* texts of a dozen characters: a unit of up to three characters repeated
MidTexts ==
  { Repeat(unit, n) :
      unit \in UNION {[1..k -> ShortAlphabet] : k \in 1..3}, n \in {11, 12} }

\* options under which a text of a dozen characters is split and every
\* kind of break point fits into the window findBreakPoint searches
MidOptions ==
  [chunkSize : {10}, chunkOverlap : {0, 2, 10, 12}, minChunkSize : {0, 2}]

\* one chunkText call: a short text with any small options or the default
\* ones, or a text of a dozen characters with chunkSize 10
InitChunkerSmall ==
  \/ \E text \in ShortTexts, options \in SmallOptions \cup {DefaultOptions} :
       chunker = ChunkerAt(text, options)
  \/ \E text \in MidTexts, options \in MidOptions :
       chunker = ChunkerAt(text, options)

\* one chunkText call: as before, or a long text with the default options
InitChunker ==
  \/ InitChunkerSmall
  \/ \E text \in LongTexts : chunker = ChunkerAt(text, DefaultOptions)

----------------------------------------------------------------------------
(* DocumentContentService.cleanText *)

\* .replace(/\r\n/g, '\n')
RECURSIVE ReplaceCrLf(_)
ReplaceCrLf(s) ==
  IF s = <<>> THEN <<>>
  ELSE IF Len(s) >= 2 /\ s[1] = "\r" /\ s[2] = "\n"
  THEN <<"\n">> \o ReplaceCrLf(SubSeq(s, 3, Len(s)))
  ELSE <<s[1]>> \o ReplaceCrLf(Tail(s))

\* .replace(/\r/g, '\n')
ReplaceCr(s) == [i \in 1..Len(s) |-> IF s[i] = "\r" THEN "\n" ELSE s[i]]

\* the length of the run of characters of the set at the head of s
RECURSIVE RunOf(_, _)
RunOf(s, chars) ==
  IF s = <<>> \/ s[1] \notin chars THEN 0 ELSE 1 + RunOf(Tail(s), chars)

\* .replace(/[ \t]+/g, ' ')
RECURSIVE CollapseBlanks(_)
CollapseBlanks(s) ==
  IF s = <<>> THEN <<>>
  ELSE IF s[1] \in {" ", "\t"}
  THEN <<" ">> \o CollapseBlanks(SubSeq(s, RunOf(s, {" ", "\t"}) + 1, Len(s)))
  ELSE <<s[1]>> \o CollapseBlanks(Tail(s))

\* .replace(/\n{3,}/g, '\n\n')
RECURSIVE CollapseNewlines(_)
CollapseNewlines(s) ==
  IF s = <<>> THEN <<>>
  ELSE IF s[1] = "\n"
  THEN LET run == RunOf(s, {"\n"})
       IN  (IF run >= 3 THEN <<"\n", "\n">> ELSE SubSeq(s, 1, run))
             \o CollapseNewlines(SubSeq(s, run + 1, Len(s)))
  ELSE <<s[1]>> \o CollapseNewlines(Tail(s))

\* .split('\n')
RECURSIVE SplitLines(_)
SplitLines(s) ==
  LET at == IndexOf(s, <<"\n">>)
  IN  IF at = -1 THEN <<s>>
      ELSE <<SubSeq(s, 1, at)>> \o SplitLines(SubSeq(s, at + 2, Len(s)))

\* .join('\n')
RECURSIVE JoinLines(_)
JoinLines(lines) ==
  IF Len(lines) = 1 THEN lines[1]
  ELSE lines[1] \o <<"\n">> \o JoinLines(Tail(lines))

\* a cleanText that trims the lines before it collapses the newlines
CleanTextTrimmingFirst(text) ==
  LET lines == SplitLines(CollapseBlanks(ReplaceCr(ReplaceCrLf(text))))
  IN  Trim(CollapseNewlines(
             JoinLines([k \in 1..Len(lines) |-> Trim(lines[k])])))

\* DocumentContentService.cleanText
CleanText(text) ==
  LET lines ==
        SplitLines(CollapseNewlines(CollapseBlanks(ReplaceCr(ReplaceCrLf(text)))))
  IN  Trim(JoinLines([k \in 1..Len(lines) |-> Trim(lines[k])]))

\* the characters of the texts cleaned
CleanAlphabet == {"a", " ", "\t", "\r", "\n"}

RawTexts == UNION {[1..n -> CleanAlphabet] : n \in 0..MaxCleanText}

\* cleanText is called on an extracted text
CleanTextCall ==
  /\ cleaner.pc = "called"
  /\ cleaner' = [cleaner EXCEPT !.pc = "cleaned",
                                !.output = CleanText(cleaner.text)]
  /\ UNCHANGED <<schedVars, searchVars, embedVars, chatVars,
                 chunker, chunkIds, guard, replacer>>

\* cleanText is called on its own output
CleanTextAgain ==
  /\ cleaner.pc = "cleaned"
  /\ cleaner' = [cleaner EXCEPT !.pc = "cleaned twice",
                                !.again = CleanText(cleaner.output)]
  /\ UNCHANGED <<schedVars, searchVars, embedVars, chatVars,
                 chunker, chunkIds, guard, replacer>>

InitCleaner ==
  \E text \in RawTexts :
    cleaner = [pc |-> "called", text |-> text, output |-> <<>>, again |-> <<>>]

----------------------------------------------------------------------------
(* KnowledgeIndexerService.generateChunkId and the keys of the index *)

\* the characters of the document ids: "/" stands for every character
\* outside [a-zA-Z0-9-_]
IdAlphabet == {"a", "_", "/"}

DocumentIdsGiven == UNION {[1..n -> IdAlphabet] : n \in 1..MaxIdLength}

\* processDocument gives every chunk of the first and then of the second
\* document its id and upserts the chunks: the first document's into an
\* empty index, the second document's next
GenerateChunkIds ==
  /\ chunkIds.pc = "called"
  /\ LET first == chunkIds.first
         second == chunkIds.second
         afterFirst == MergeOrUpload({}, first.documentId, 0,
                                     first.chunks - 1, 1)
     IN  chunkIds' =
           [chunkIds EXCEPT
              !.pc = "stored",
              !.firstIds = {GenerateChunkId(first.documentId, k) :
                              k \in 0..(first.chunks - 1)},
              !.secondIds = {GenerateChunkId(second.documentId, k) :
                               k \in 0..(second.chunks - 1)},
              !.stored = MergeOrUpload(afterFirst, second.documentId, 0,
                                       second.chunks - 1, 2)]
  /\ UNCHANGED <<schedVars, searchVars, embedVars, chatVars,
                 chunker, cleaner, guard, replacer>>

\* two documents with different ids, each with one chunk or more
InitChunkIds ==
  \E d1, d2 \in DocumentIdsGiven, n1, n2 \in 1..(MaxChunkIndex + 1) :
    /\ d1 # d2
    /\ chunkIds = [ pc |-> "called",
                    first |-> [documentId |-> d1, chunks |-> n1],
                    second |-> [documentId |-> d2, chunks |-> n2],
                    firstIds |-> {}, secondIds |-> {}, stored |-> {} ]

----------------------------------------------------------------------------
(* AzureADGuard.canActivate, the guard of the controllers *)

\* the guarded routes
Endpoints ==
  { "POST /api/chat", "GET /api/me", "GET /api/config",
    "POST /api/admin/knowledge-indexer/run",
    "GET /api/admin/knowledge-indexer/preview",
    "POST /api/admin/knowledge-indexer/test",
    "GET /api/admin/knowledge-indexer/stats" }

\* request.headers.authorization
AuthorizationHeaders ==
  {"absent", "Bearer valid", "Bearer expired", "Bearer", "Basic valid"}

\* request.query.bypassauth
BypassAuthValues ==
  {JsUndefined, JsString("true"), JsString("false"), JsString("TRUE")}

\* the azure-ad passport strategy accepts a bearer token that verifies
PassportAccepts(authorization) == authorization = "Bearer valid"

\* authHeader?.split(' ')[1] || ''
TokenOf(authorization) ==
  CASE authorization = "Bearer valid" -> "valid"
    [] authorization = "Bearer expired" -> "expired"
    [] authorization = "Basic valid" -> "valid"
    [] OTHER -> ""

\* canActivate up to await super.canActivate(context): the bypass returns
\* true at once and the handler runs
CanActivate ==
  /\ guard.pc = "received"
  /\ guard' = IF guard.bypassauth = JsString("true")
              THEN [guard EXCEPT !.pc = "handler"]
              ELSE [guard EXCEPT !.pc = "passport"]
  /\ UNCHANGED <<schedVars, searchVars, embedVars, chatVars,
                 chunker, cleaner, chunkIds, replacer>>

\* passport's validation settles: it rejects with 401, or the user is
\* attached with the token and the handler runs
PassportSettles ==
  /\ guard.pc = "passport"
  /\ guard' = IF PassportAccepts(guard.authorization)
              THEN [guard EXCEPT !.pc = "handler",
                                 !.user = [token |-> TokenOf(guard.authorization)]]
              ELSE [guard EXCEPT !.pc = "401"]
  /\ UNCHANGED <<schedVars, searchVars, embedVars, chatVars,
                 chunker, cleaner, chunkIds, replacer>>

InitGuard ==
  \E endpoint \in Endpoints, authorization \in AuthorizationHeaders,
     bypassauth \in BypassAuthValues :
    guard = [ pc |-> "received", endpoint |-> endpoint,
              authorization |-> authorization, bypassauth |-> bypassauth,
              user |-> JsUndefined ]

----------------------------------------------------------------------------
(* processDocument's replacement of a document's chunks: delete, then upsert *)

\* VectorStoreService.upsertChunks(chunks) for the n chunks of document d,
\* from chunk `sent` on, when no request fails: batches of UpsertBatchSize
RECURSIVE UpsertChunks(_, _, _, _, _)
UpsertChunks(idx, d, sent, n, g) ==
  IF sent >= n THEN idx
  ELSE UpsertChunks(
         MergeOrUpload(idx, d, sent, Min(sent + UpsertBatchSize, n) - 1, g),
         d, sent + UpsertBatchSize, n, g)

\* deleteDocumentChunks(document.id); upsertChunks(documentChunks)
ReplaceChunks(idx, d, n, order, g) ==
  UpsertChunks(DeleteDocumentChunks(idx, d, order), d, 0, n, g)

\* the chunk counts of a document version
ChunkCounts == {1, 2, DeleteTop + 1}

\* what an index holds after passes over the earlier versions of the
\* documents: nothing of a document, or the chunks of one version of it
StoredIndexes ==
  { UNION {IF stored[d] = 0 THEN {} ELSE {Run(d, 0, stored[d] - 1, 1)} :
             d \in Docs} :
      stored \in [Docs -> {0} \cup ChunkCounts] }

\* a pass replaces the chunks of the document
ReplaceDocumentChunks ==
  /\ replacer.pc = "called"
  /\ \E order \in PageOrders :
       replacer' = [replacer EXCEPT
                      !.pc = "once",
                      !.once = ReplaceChunks(replacer.index, replacer.documentId,
                                             replacer.n, order, 2)]
  /\ UNCHANGED <<schedVars, searchVars, embedVars, chatVars,
                 chunker, cleaner, chunkIds, guard>>

\* the next pass replaces the chunks of the unchanged document
ReplaceDocumentChunksAgain ==
  /\ replacer.pc = "once"
  /\ \E order \in PageOrders :
       replacer' = [replacer EXCEPT
                      !.pc = "twice",
                      !.twice = ReplaceChunks(replacer.once, replacer.documentId,
                                              replacer.n, order, 3)]
  /\ UNCHANGED <<schedVars, searchVars, embedVars, chatVars,
                 chunker, cleaner, chunkIds, guard>>

InitReplacer ==
  \E idx \in StoredIndexes, d \in Docs, n \in ChunkCounts :
    replacer = [ pc |-> "called", index |-> idx, documentId |-> d, n |-> n,
                 once |-> {}, twice |-> {} ]

----------------------------------------------------------------------------
(* POST /api/chat: ChatController.chat and ChatService.chat *)

ChatMessage(role, content) == [role |-> role, content |-> content]

\* the conversations a request may carry (the body is not validated, so the
\* list may be empty)
Conversations ==
  UNION {[1..n -> {ChatMessage(role, content) :
                     role \in {"user", "assistant"}, content \in {"q", "a"}}]
         : n \in 0..MaxMessages}

\* context.searchMode of the request
ContextSearchModes == {JsUndefined, JsString("rag"), JsString("kql")}

\* process.env.DEFAULT_SEARCH_MODE
DefaultSearchModeEnv ==
  {JsUndefined, JsString(""), JsString("rag"), JsString("kql")}

\* ConfigurationService.configuration.DEFAULT_SEARCH_MODE
DefaultSearchMode(raw) == JsOr(raw, JsString("kql"))

\* ChatService.chat: const searchMode = context.searchMode ?? DEFAULT ?? 'kql'
SearchMode(contextSearchMode, raw) ==
  JsNullish(JsNullish(contextSearchMode, DefaultSearchMode(raw)),
            JsString("kql")).s

\* ChatService.buildTools
BuildChatTools(searchMode) ==
  IF searchMode = "rag"
  THEN <<"KnowledgeSearchTool", "GraphFileReaderTool",
         "GraphSiteTool", "GraphMeTool">>
  ELSE <<"GraphSearchTool", "GraphFileReaderTool",
         "GraphSiteTool", "GraphMeTool">>

\* result.output of the agent executor
AgentOutputs == {"", "answer", "q"}

\* ChatService.chat returns [...messages, { role: 'assistant', content }]
ChatResult(messages, output) ==
  Append(messages, ChatMessage("assistant", output))

\* ChatController.chat: the body it returns for the service's messages
ChatResponse(messages) ==
  [response |-> messages[Len(messages)].content, messages |-> messages]

\* the controller calls chatService.chat, which runs up to
\* await this.oboGraphService.getGraphClient(user.token)
ChatRequestArrives ==
  /\ chat.pc = "received"
  /\ chat' = [chat EXCEPT !.pc = "getGraphClient"]
  /\ UNCHANGED <<schedVars, searchVars, embedVars, libVars>>

\* getGraphClient settles; on success chat determines the mode, builds the
\* tools, the prompt and the agent, reads the last message and runs up to
\* await executor.invoke.  With no message the read of .content throws.
GetGraphClientSettles ==
  /\ chat.pc = "getGraphClient"
  /\ \E ok \in BOOLEAN :
       LET searchMode == SearchMode(chat.contextSearchMode, chat.rawDefault)
       IN  chat' =
             IF ~ok THEN [chat EXCEPT !.pc = "rejected"]
             ELSE IF Len(chat.messages) = 0
             THEN [chat EXCEPT !.pc = "rejected", !.searchMode = searchMode,
                               !.tools = BuildChatTools(searchMode)]
             ELSE [chat EXCEPT !.pc = "invoke", !.searchMode = searchMode,
                               !.tools = BuildChatTools(searchMode)]
  /\ UNCHANGED <<schedVars, searchVars, embedVars, libVars>>

\* executor.invoke settles; on success the service returns the conversation
\* and the controller answers
ExecutorSettles ==
  /\ chat.pc = "invoke"
  /\ \/ chat' = [chat EXCEPT !.pc = "rejected"]
     \/ \E output \in AgentOutputs :
          chat' = [chat EXCEPT
                     !.pc = "responded",
                     !.body = ChatResponse(ChatResult(chat.messages, output))]
  /\ UNCHANGED <<schedVars, searchVars, embedVars, libVars>>

\* one chat request: any conversation, any context.searchMode, any
\* configured default
InitChat ==
  /\ InitSched
  /\ rawEnabled = JsUndefined
  /\ InitSearchTool
  /\ InitEmbedIdle
  /\ InitLibIdle
  /\ \E messages \in Conversations, mode \in ContextSearchModes,
        raw \in DefaultSearchModeEnv :
       chat = [NoChat EXCEPT !.pc = "received", !.messages = messages,
                             !.contextSearchMode = mode, !.rawDefault = raw]

NextChat ==
  \/ ChatRequestArrives
  \/ GetGraphClientSettles
  \/ ExecutorSettles

SpecChat == InitChat /\ [][NextChat]_vars

\* one chunkText call
InitChunk ==
  /\ InitSched
  /\ rawEnabled = JsUndefined
  /\ InitSearchTool
  /\ InitEmbedIdle
  /\ InitChatIdle
  /\ cleaner = NoCleaner
  /\ chunkIds = NoChunkIds
  /\ guard = NoGuard
  /\ replacer = NoReplacer
  /\ InitChunker

NextChunk ==
  \/ ChunkText
  \/ ChunkLoop

SpecChunk == InitChunk /\ [][NextChunk]_vars

\* one chunkText call on a text of at most a dozen characters
InitChunkSmall ==
  /\ InitSched
  /\ rawEnabled = JsUndefined
  /\ InitSearchTool
  /\ InitEmbedIdle
  /\ InitChatIdle
  /\ cleaner = NoCleaner
  /\ chunkIds = NoChunkIds
  /\ guard = NoGuard
  /\ replacer = NoReplacer
  /\ InitChunkerSmall

\* chunkText is synchronous code: once called it keeps running
SpecChunkRuns ==
  InitChunkSmall /\ [][NextChunk]_vars /\ WF_vars(NextChunk)

InitEmbed ==
  /\ InitSched
  /\ rawEnabled = JsUndefined
  /\ InitSearchTool
  /\ InitChatIdle
  /\ InitLibIdle
  /\ \E n \in 0..MaxTexts, upstream \in Upstreams(MaxTexts) :
       /\ upstream \in Upstreams(n)
       /\ embedCall = [NoEmbedCall EXCEPT !.pc = "called", !.n = n,
                                          !.upstream = upstream]

NextEmbed ==
  \/ EmbedCallSettles
  \/ BuildChunks

SpecEmbed == InitEmbed /\ [][NextEmbed]_vars


\* every other part at rest
InitRest ==
  /\ InitSched
  /\ rawEnabled = JsUndefined
  /\ InitSearchTool
  /\ InitEmbedIdle
  /\ InitChatIdle

\* one cleanText call
InitClean ==
  /\ InitRest
  /\ chunker = NoChunker /\ chunkIds = NoChunkIds /\ guard = NoGuard
  /\ replacer = NoReplacer
  /\ InitCleaner

NextClean ==
  \/ CleanTextCall
  \/ CleanTextAgain

SpecClean == InitClean /\ [][NextClean]_vars

\* the chunks of two documents get their ids
InitIds ==
  /\ InitRest
  /\ chunker = NoChunker /\ cleaner = NoCleaner /\ guard = NoGuard
  /\ replacer = NoReplacer
  /\ InitChunkIds

NextIds == GenerateChunkIds

SpecIds == InitIds /\ [][NextIds]_vars

\* the chunks of one document are replaced, twice
InitReplace ==
  /\ InitRest
  /\ chunker = NoChunker /\ cleaner = NoCleaner /\ chunkIds = NoChunkIds
  /\ guard = NoGuard
  /\ InitReplacer

NextReplace ==
  \/ ReplaceDocumentChunks
  \/ ReplaceDocumentChunksAgain

SpecReplace == InitReplace /\ [][NextReplace]_vars

\* one request at the guard
InitGuarded ==
  /\ InitRest
  /\ chunker = NoChunker /\ cleaner = NoCleaner /\ chunkIds = NoChunkIds
  /\ replacer = NoReplacer
  /\ InitGuard

NextGuard ==
  \/ CanActivate
  \/ PassportSettles

SpecGuard == InitGuarded /\ [][NextGuard]_vars

Init ==
  InitSched /\ InitSearchTool /\ InitEmbedIdle /\ InitChatIdle /\ InitLibIdle

Next ==
  \/ OnModuleInit
  \/ OnModuleInitResume
  \/ TimerTick
  \/ TriggerRun
  \/ TestIndexing
  \/ OnModuleDestroy
  \/ \E id \in 1..MaxCalls : SearchStep(id)
  \/ \E id \in 1..MaxCalls : ExtractStep(id)
  \/ \E id \in 1..MaxCalls : EmbedStep(id)
  \/ \E id \in 1..MaxCalls : DeleteStep(id)
  \/ \E id \in 1..MaxCalls : UpsertStep(id)

Spec == Init /\ [][Next]_vars

----------------------------------------------------------------------------
(* Claims about the scheduler and the pipeline *)

\* every fate entry of the passes in flight and of the call that returned last
AllFates ==
  UNION {{passes[id].fate[k] : k \in 1..Len(passes[id].fate)} : id \in DOMAIN passes}
  \cup {last.fate[k] : k \in 1..Len(last.fate)}

\* C1: at most one pipeline pass is in flight at any time; a runIndexer call
\* that arrives while a pass is in flight returns the 'already running' result
\* (all counts 0) in the same step, never becomes a pass, and no chunk of the
\* index was written by it.
C1_SingletonPass ==
  /\ Cardinality(DOMAIN passes) <= 1
  /\ isRunning <=> DOMAIN passes # {}
  /\ \A id \in DOMAIN passes : ~passes[id].arrivedBusy
  /\ last.arrivedBusy =>
       /\ last.result = AlreadyRunningResult
       /\ last.docs = <<>>
       /\ last.id \in hist.rejected
  /\ \A id \in hist.rejected :
       /\ id \notin DOMAIN passes
       /\ \A r \in index : r.gen # id

\* a call was turned away while another pass, in the middle of its upserts,
\* goes on
C1_Witness ==
  /\ last.arrivedBusy
  /\ last.result = AlreadyRunningResult
  /\ \E id \in DOMAIN passes : passes[id].pc = "upsert" /\ passes[id].sent > 0

\* the document whose processDocument completed last in pass p, if it was
\* stored with every item reported as succeeded
StoredLast(p) ==
  /\ Len(p.fate) >= 1
  /\ ~p.skip
  /\ p.fate[Len(p.fate)].kind = "processed"
  /\ ~p.fate[Len(p.fate)].itemFailed

ExactlyChunksOf(e, id) ==
  ChunksOf(index, e.doc) = {Run(e.doc, 0, e.n - 1, id)}

\* C2: once processDocument has completed successfully for a document in a
\* non-test pass, the chunks of the index with that documentId are exactly
\* the chunks that pass produced for it.
C2_NoOrphanChunks ==
  /\ \A id \in DOMAIN passes :
       (StoredLast(passes[id]) /\ passes[id].pc \in {"extract", "embed", "delete"})
         => ExactlyChunksOf(passes[id].fate[Len(passes[id].fate)], id)
  /\ (last.id # 0 /\ StoredLast(last))
         => ExactlyChunksOf(last.fate[Len(last.fate)], last.id)

RECURSIVE ErrorsOf(_)
\* the error strings the documents of a fate that threw account for
ErrorsOf(fate) ==
  IF fate = <<>> THEN <<>>
  ELSE LET e == fate[Len(fate)]
           front == ErrorsOf(SubSeq(fate, 1, Len(fate) - 1))
       IN IF e.kind = "failed" THEN Append(front, FailedToProcess(e.doc, e.stage))
                               ELSE front

\* the pass whose result `last` holds ran its loop over the documents
RanLoop == last.id # 0 /\ last.docs # <<>>

\* C6 (as amended): a document whose processDocument throws (the embedding,
\* the delete or an upsert batch failed) never ends the pass: every document
\* of the search is iterated, each throwing document leaves exactly one error
\* naming its title, every other document leaves none, and the pass returns
\* its result.  Errors inside the extractor are swallowed there: the document
\* is skipped and leaves no error.
C6_ErrorIsolation ==
  /\ \A id \in DOMAIN passes :
       /\ passes[id].errors = ErrorsOf(passes[id].fate)
       /\ Len(passes[id].fate) <= Len(passes[id].docs)
  /\ RanLoop =>
       /\ Len(last.fate) = Len(last.docs)
       /\ \A k \in 1..Len(last.docs) : last.fate[k].doc = last.docs[k]
       /\ last.result.errors = ErrorsOf(last.fate)
       /\ last.result.documentsFound = Len(last.docs)
  /\ \A e \in AllFates :
       /\ e.kind = "failed" => e.stage \in {"embed", "delete", "upsert"}
       /\ e.xerr # "none" => e.kind = "skipped"

\* the first of two documents threw at the delete, the second was stored
C6_Witness ==
  /\ RanLoop
  /\ Len(last.docs) = 2
  /\ last.fate[1].kind = "failed" /\ last.fate[1].stage = "delete"
  /\ last.fate[2].kind = "processed"
  /\ Len(last.result.errors) = 1
  /\ last.result.errors[1].title = Title(last.docs[1])

\* the number of errors of a result that name a title
ErrorsNaming(result, title) ==
  Cardinality({j \in 1..Len(result.errors) : result.errors[j].title = title})

\* C6 as stated: every document whose processing failed, the extraction
\* included, leaves exactly one error naming its title.
C6_AsStated ==
  RanLoop =>
    \A k \in 1..Len(last.fate) :
      (last.fate[k].kind = "failed" \/ last.fate[k].xerr # "none")
        => ErrorsNaming(last.result, Title(last.fate[k].doc)) = 1

\* a pass over two documents: the extractor met an error for the first, the
\* second was processed
ExtractionFailedForFirst ==
  /\ RanLoop
  /\ Len(last.docs) = 2
  /\ last.fate[1].xerr # "none"
  /\ last.fate[2].kind = "processed"

\* C7 (as amended): when the extractor meets a download or parse error for a
\* document, the pass counts it as found but not processed and records no
\* error for it; for two documents with the extraction failing for the
\* first: documentsFound = 2, documentsProcessed = 1, errors.length = 0.
C7_ExtractionFailure ==
  /\ ExtractionFailedForFirst =>
       last.result = Result(2, 1, last.fate[2].n, <<>>)
  /\ RanLoop =>
       \A k \in 1..Len(last.fate) :
         last.fate[k].xerr # "none" =>
           /\ last.fate[k].kind = "skipped"
           /\ ErrorsNaming(last.result, Title(last.fate[k].doc)) = 0
           /\ last.result.documentsProcessed < last.result.documentsFound

C7_Witness ==
  /\ ExtractionFailedForFirst
  /\ ~last.skip
  /\ ExactlyChunksOf(last.fate[2], last.id)

\* C7 as stated: in that case errors.length = 1, naming the first document
C7_AsStated ==
  ExtractionFailedForFirst =>
    /\ last.result.documentsFound = 2
    /\ last.result.documentsProcessed = 1
    /\ Len(last.result.errors) = 1

\* C8: within one document the delete has completed before the first upsert
\* batch is sent, and nothing is upserted for a document whose delete failed.
C8_DeleteBeforeUpsert ==
  /\ \A id \in DOMAIN passes :
       (passes[id].pc = "upsert" \/ passes[id].sent > 0) => passes[id].deleted
  /\ \A e \in AllFates :
       /\ e.sent > 0 => e.deleted
       /\ (e.kind = "failed" /\ e.stage = "delete") => (e.sent = 0 /\ ~e.deleted)
       /\ e.kind = "processed" /\ e.stage = "stored" => e.deleted

\* a pass between two upsert batches of its second document, after the delete
\* failed for its first
C8_Witness ==
  \E id \in DOMAIN passes :
    /\ passes[id].pc = "upsert"
    /\ passes[id].sent > 0
    /\ passes[id].deleted
    /\ Len(passes[id].fate) = 1
    /\ passes[id].fate[1].stage = "delete"

\* C9: with KNOWLEDGE_INDEXER_ENABLED set to false, onModuleInit runs no pass
\* and installs no timer.
C9_DisabledDoesNothing ==
  rawEnabled = JsString("false") =>
    /\ hist.startups = 0
    /\ hist.timers = 0
    /\ ~intervalHandle

\* C10: when the indexer is enabled, onModuleInit runs exactly one pass at
\* once (the first runIndexer call, never turned away), installs the timer
\* once and only after that pass has returned, also when it failed; every
\* other scheduled pass comes from a tick of that timer.
C10_StartupThenTimer ==
  /\ initPc = "idle" => (nCalls = 0 /\ hist.startups = 0)
  /\ (Truthy(KnowledgeIndexerEnabled) /\ initPc # "idle") => hist.startups = 1
  /\ initPc = "awaitRun" =>
       (hist.startupDone = "no" <=> (1 \in DOMAIN passes /\ passes[1].origin = "startup"))
  /\ hist.startupDone # "rejected"
  /\ hist.timers >= 1 => hist.startupDone \in {"ok", "failed"}
  /\ intervalHandle => hist.timers = 1
  /\ (Truthy(KnowledgeIndexerEnabled) /\ initPc = "done") => hist.timers = 1
  /\ \A id \in DOMAIN passes :
       /\ passes[id].origin = "startup" => id = 1
       /\ passes[id].origin = "tick" => (id > 1 /\ hist.timers = 1)

\* the first pass failed, the timer was installed all the same, and a pass
\* started by a tick is in flight
C10_Witness ==
  /\ initPc = "done"
  /\ hist.startupDone = "failed"
  /\ intervalHandle
  /\ \E id \in DOMAIN passes : passes[id].origin = "tick"

RECURSIVE SumN(_)
\* the chunks counted over the documents of a pass
SumN(fate) == IF fate = <<>> THEN 0 ELSE Head(fate).n + SumN(Tail(fate))

\* the origin of the runIndexer call made in this step
CalledFrom ==
  IF nCalls' \in DOMAIN passes' THEN passes'[nCalls'].origin ELSE last'.origin

\* C11: shutdown cancels the pending timer.  Once onModuleDestroy has run,
\* no interval timer of the scheduler is active and no scheduled pass is
\* started any more, wherever the shutdown falls (also while the startup
\* pass is still awaited).
C11_ShutdownCancelsTimer ==
  /\ [](destroyed => ~intervalHandle)
  /\ [][(destroyed /\ nCalls' # nCalls) => CalledFrom # "tick"]_vars

\* C12: a pass started through POST /api/admin/knowledge-indexer/run is a
\* full pass: it runs without skipEmbeddings, so none of its documents ends
\* in test mode; only the /test endpoint runs with skipEmbeddings set.
C12_RunIsFullPass ==
  /\ \A id \in DOMAIN passes :
       passes[id].skip <=> passes[id].origin = "test"
  /\ last.origin = "run" =>
       /\ ~last.skip
       /\ \A k \in DOMAIN last.fate : last.fate[k].stage # "test mode"

\* the pass in flight, if it runs with skipEmbeddings set
TestPasses == {id \in DOMAIN passes : passes[id].skip}

\* C13: test mode leaves the index and the embedder untouched.  A pass run
\* with skipEmbeddings set never waits for an embedding, delete or upsert
\* request, none of its steps changes the index, and each document with
\* content is still counted, with its chunks, in documentsProcessed and
\* chunksCreated.
C13_TestModeFrame ==
  /\ [](\A id \in TestPasses :
          /\ passes[id].pc \in {"search", "extract"}
          /\ \A k \in DOMAIN passes[id].fate :
               /\ ~passes[id].fate[k].deleted
               /\ passes[id].fate[k].sent = 0
               /\ passes[id].fate[k].n > 0 <=>
                    passes[id].fate[k].stage = "test mode")
  /\ [](last.skip =>
          /\ last.result.documentsProcessed =
               Cardinality({k \in DOMAIN last.fate : last.fate[k].n > 0})
          /\ last.result.chunksCreated = SumN(last.fate)
          /\ \A k \in DOMAIN last.fate :
               last.fate[k].stage \in {"insufficient content", "no chunks",
                                       "test mode"})
  /\ [][TestPasses # {} => index' = index]_vars

\* a test pass over two documents has returned, it counted the 1001 chunks
\* of the first, and the index still holds what an earlier pass stored
C13_Witness ==
  /\ last.skip
  /\ last.result.documentsFound = 2
  /\ last.result.documentsProcessed >= 1
  /\ last.result.chunksCreated > DeleteTop
  /\ index # {}

\* C15: an embedding failure on any batch is isolated to the document.
\* When the upstream fails a request of generateEmbeddings, the call throws
\* having sent no later request and returns no partial result; the document
\* ends as failed with one error, nothing was deleted or upserted for it
\* (the step leaves the index as it was), and the loop goes on to the
\* remaining documents.
C15_EmbeddingFailureIsolated ==
  /\ [](\A e \in AllFates :
          e.embed.at # 0 =>
            /\ e.embed.threw
            /\ e.embed.requests = e.embed.at
            /\ e.embed.vectors = 0
            /\ e.kind = "failed" /\ e.stage = "embed"
            /\ ~e.deleted /\ e.sent = 0)
  /\ [](RanLoop =>
          /\ Len(last.fate) = Len(last.docs)
          /\ \A k \in DOMAIN last.fate :
               last.fate[k].embed.at # 0 =>
                 ErrorsNaming(last.result, Title(last.docs[k])) = 1)
  /\ [][(\E id \in DOMAIN passes : passes[id].pc = "embed") => index' = index]_vars

\* the last of the 63 embedding requests of the first document failed; its
\* chunks of an earlier pass are still in the index, and the second document
\* was stored
C15_Witness ==
  /\ RanLoop
  /\ Len(last.docs) = 2
  /\ last.fate[1].embed.at > 1
  /\ last.fate[1].kind = "failed"
  /\ last.fate[2].kind = "processed" /\ last.fate[2].stage = "stored"
  /\ \E r \in ChunksOf(index, last.docs[1]) : r.gen # last.id

----------------------------------------------------------------------------
(* Claims about the knowledge_search tool (under SpecSearch) *)

SourceDocs(call) ==
  {call.output.sources[i].documentId : i \in DOMAIN call.output.sources}

\* C3: permission filter safety.  Every source in the string a
\* knowledge_search call returns belongs to a document whose metadata
\* request with the requesting user's Graph client succeeded (and so to a
\* document that user may read); no chunk of a document whose probe did not
\* succeed appears in the result.
C3_PermissionFilterSafety ==
  \A c \in DOMAIN calls :
    /\ SourceDocs(calls[c]) \subseteq tools[calls[c].tool].fetched
    /\ SourceDocs(calls[c]) \subseteq userAccess
    /\ \A d \in DOMAIN calls[c].requestOk :
         ~calls[c].requestOk[d] => d \notin SourceDocs(calls[c])

\* a call returned sources although the search had also found chunks of a
\* document whose probe did not succeed
C3_Witness ==
  \E c \in DOMAIN calls :
    /\ calls[c].pc = "returned"
    /\ SourceDocs(calls[c]) # {}
    /\ \E d \in DocumentIds(calls[c].results) :
         /\ d \notin tools[calls[c].tool].fetched
         /\ d \notin userAccess

\* the call went through search and permission filter without a transient
\* failure: each decision is the one the provider gives for the user
RanCleanly(call) ==
  /\ call.pc = "returned"
  /\ call.output.text \notin {SearchError("embedding failed").text,
                              SearchError("search failed").text}
  /\ \A d \in DOMAIN call.hasAccess :
       call.hasAccess[d] = (d \in userAccess /\ (DriveId(d) # "" \/ WebUrlParses(d)))

\* C4: a per-document denial is never revealed.  Two knowledge_search runs
\* of the same user and query whose index contents differ only in chunks of
\* documents the user cannot read return the same string.
C4_DenialNeverRevealed ==
  \A c1, c2 \in DOMAIN calls :
    ( /\ RanCleanly(calls[c1])
      /\ RanCleanly(calls[c2])
      /\ ChunksOfDocs(calls[c1].seen, userAccess)
           = ChunksOfDocs(calls[c2].seen, userAccess) )
    => calls[c1].output = calls[c2].output

\* C5: fail-closed probe.  checkDocumentPermission answers accessible only
\* when the metadata request succeeded; after a 403, a 404 or any other
\* failure (5xx, timeout, malformed webUrl or response) it answers not
\* accessible, the decision is cached, and no chunk of the document is in
\* the result of the call.
C5_FailClosedProbe ==
  \A c \in DOMAIN calls :
    \A d \in DOMAIN calls[c].requestOk :
      /\ calls[c].hasAccess[d] = calls[c].requestOk[d]
      /\ d \in DOMAIN tools[calls[c].tool].permissionCache
      /\ ~calls[c].requestOk[d] => d \notin SourceDocs(calls[c])

\* the request for a document the user may read failed, and the call
\* returned the other document it found without that one; in the same
\* call the document with the malformed webUrl was turned down too
C5_Witness ==
  \E c \in DOMAIN calls :
    /\ calls[c].pc = "returned"
    /\ "doc1" \in userAccess
    /\ "doc1" \in DOMAIN calls[c].requestOk
    /\ ~calls[c].requestOk["doc1"]
    /\ "doc2" \in DOMAIN calls[c].requestOk
    /\ SourceDocs(calls[c]) = {"doc3"}

\* the fetched results of a call that belong to documents it found
\* accessible
AccessibleResults(call) ==
  {call.results[i] : i \in {j \in DOMAIN call.results :
                              call.hasAccess[call.results[j].documentId]}}

\* the score of the best chunk of document d among a set of results
BestScore(results, d) ==
  LET best == CHOOSE r \in results :
                /\ r.documentId = d
                /\ \A q \in results : q.documentId = d => q.score <= r.score
  IN  best.score

ProbedBy(call) == DOMAIN call.requestOk \cup call.pending

\* C18: within one chat request (one tool instance) each document is probed
\* at most once, and all calls of the request get the same decision for it,
\* whether they run one after the other or concurrently.
C18_MemoizedPerRequest ==
  \A c1, c2 \in DOMAIN calls :
    (c1 # c2 /\ calls[c1].tool = calls[c2].tool) =>
      /\ ProbedBy(calls[c1]) \cap ProbedBy(calls[c2]) = {}
      /\ \A d \in DOMAIN calls[c1].hasAccess \cap DOMAIN calls[c2].hasAccess :
           calls[c1].hasAccess[d] = calls[c2].hasAccess[d]

\* the decisions a call took from the cache instead of probing
ReadFromCache(call) == DOMAIN call.hasAccess \ DOMAIN call.requestOk

\* C19: the permission cache is never shared between chat requests.  Every
\* entry of a tool's cache was written by a probe of a call on that tool,
\* and every decision a call reads from the cache is one that a call of the
\* same request obtained by probing.
C19_CachePerRequest ==
  /\ \A t \in DOMAIN tools :
       \A d \in DOMAIN tools[t].permissionCache :
         \E c \in DOMAIN calls :
           /\ calls[c].tool = t
           /\ d \in DOMAIN calls[c].requestOk
  /\ \A c \in DOMAIN calls :
       \A d \in ReadFromCache(calls[c]) :
         \E c2 \in DOMAIN calls :
           /\ calls[c2].tool = calls[c].tool
           /\ d \in DOMAIN calls[c2].requestOk
           /\ calls[c2].hasAccess[d] = calls[c].hasAccess[d]

\* two requests are served; each probed doc1 with its own Graph client and
\* they hold different decisions about it in their caches
C19_Witness ==
  \E c1, c2 \in DOMAIN calls :
    /\ calls[c1].tool # calls[c2].tool
    /\ calls[c1].pc = "returned" /\ calls[c2].pc = "returned"
    /\ "doc1" \in DOMAIN calls[c1].requestOk \cap DOMAIN calls[c2].requestOk
    /\ tools[calls[c1].tool].permissionCache["doc1"]
    /\ ~tools[calls[c2].tool].permissionCache["doc1"]

----------------------------------------------------------------------------
(* Claims about generateEmbeddings (under SpecEmbed) *)

EmbedCallSettled == embedCall.pc \notin {"idle", "called"}

\* C14: generateEmbeddings preserves length and order.  The requests carry
\* consecutive slices of the input, in order, of 1 to 16 texts each; with an
\* upstream that answers every request with one vector per input in order,
\* n texts take ceil(n/16) requests (none for n = 0) and the call returns
\* n results, result i being the embedding of text i.
C14_BatchingPreservesOrder ==
  EmbedCallSettled =>
    LET n == embedCall.n
        out == embedCall.out
        requests == out.requests
        count == Len(requests)
    IN  /\ \A k \in 1..count :
             /\ requests[k][2] - requests[k][1] + 1 \in 1..16
             /\ requests[k][1] = IF k = 1 THEN 0 ELSE requests[k - 1][2] + 1
        /\ embedCall.upstream = WellBehaved =>
             /\ ~out.threw
             /\ 16 * count >= n
             /\ 16 * count < n + 16
             /\ count > 0 => requests[count][2] = n - 1
             /\ Len(Vectors(out.results)) = n
             /\ \A i \in 1..n : Vectors(out.results)[i].text = i - 1

\* a call with more than 32 texts took three requests, the last one short
C14_Witness ==
  /\ embedCall.pc = "resolved"
  /\ embedCall.upstream = WellBehaved
  /\ embedCall.n > 2 * 16
  /\ Len(embedCall.out.requests) = 3
  /\ Len(Vectors(embedCall.out.results)) = embedCall.n

\* C16: every chunk the pipeline hands to the index has an embedding of
\* length exactly 1536, whatever vectors the embedder returns; a vector of
\* another length, or a missing one, stops the document before the upsert.
C16_EmbeddingLength ==
  embedCall.pc = "store" =>
    \A k \in DOMAIN embedCall.documentChunks :
      embedCall.documentChunks[k].embedding.dim = 1536

----------------------------------------------------------------------------
(* Claims about POST /api/chat (under SpecChat) *)

\* the mode the request is served in: context.searchMode if given, else the
\* configured default if one is set, else kql
EffectiveMode ==
  IF chat.contextSearchMode # JsUndefined THEN chat.contextSearchMode.s
  ELSE IF Truthy(chat.rawDefault) THEN chat.rawDefault.s
  ELSE "kql"

\* C20: the response of a chat turn carries the request's messages unchanged
\* and in order followed by exactly one new assistant message, response is
\* that message's content, and searchMode is the effective mode of the
\* request.
C20_ChatResponse ==
  chat.pc = "responded" =>
    LET n == Len(chat.messages)
    IN  /\ Len(chat.body.messages) = n + 1
        /\ SubSeq(chat.body.messages, 1, n) = chat.messages
        /\ chat.body.messages[n + 1].role = "assistant"
        /\ chat.body.response = chat.body.messages[n + 1].content
        /\ "searchMode" \in DOMAIN chat.body
        /\ chat.body.searchMode = EffectiveMode

----------------------------------------------------------------------------
(* Claims about chunkText (under SpecChunk and SpecChunkRuns) *)

ChunksOfCall == {chunker.chunks[k] : k \in DOMAIN chunker.chunks}

ChunkingStarted == chunker.pc \in {"loop", "returned"}

\* C21 as stated: with the default options every chunk returned, the single
\* chunk of a short input included, has endOffset - startOffset >=
\* minChunkSize.
C21_AsStated ==
  (chunker.pc = "returned" /\ chunker.options = DefaultOptions) =>
    \A chunk \in ChunksOfCall :
      chunk.endOffset - chunk.startOffset >= DefaultMinChunkSize

\* C21: every chunk of a text whose trimmed length is at least minChunkSize
\* has a text and a range of at least minChunkSize characters; a shorter
\* text gives no chunk or the single chunk with range [0, text.length),
\* which is shorter than minChunkSize.
C21_ChunkSizes ==
  ChunkingStarted =>
    LET minChunkSize == chunker.options.minChunkSize
        trimmed == Trim(chunker.text)
    IN  IF Len(trimmed) >= minChunkSize
        THEN \A chunk \in ChunksOfCall :
               /\ Len(chunk.text) >= minChunkSize
               /\ chunk.endOffset - chunk.startOffset >= minChunkSize
        ELSE ChunksOfCall \subseteq
               {TextChunk(0, trimmed, 0, Len(chunker.text))}

\* a long text was chunked with the default options into three chunks or
\* more
C21_Witness ==
  /\ chunker.pc = "returned"
  /\ chunker.options = DefaultOptions
  /\ Len(chunker.chunks) >= 3

\* C22: the chunks cover the input.  With the default options every
\* non-whitespace character of the text lies in the range of a chunk, each
\* chunk's text is the trimmed slice over its range, and each chunk after
\* the first starts at or before the end of the one before.
C22_ChunksCoverInput ==
  (chunker.pc = "returned" /\ chunker.options = DefaultOptions) =>
    /\ \A i \in 1..Len(chunker.text) :
         ~IsWhitespace(chunker.text[i]) =>
           \E chunk \in ChunksOfCall :
             chunk.startOffset <= i - 1 /\ i - 1 < chunk.endOffset
    /\ \A chunk \in ChunksOfCall :
         chunk.text = Trim(TextSlice(chunker.text, chunk.startOffset,
                                     chunk.endOffset))
    /\ \A k \in 2..Len(chunker.chunks) :
         chunker.chunks[k].startOffset <= chunker.chunks[k - 1].endOffset

\* the text of the scenario: 'alpha beta gamma' repeated to 4500 characters
ScenarioText == Repeat(AlphaBetaGamma, 4500)

ScenarioChunked ==
  /\ chunker.pc = "returned"
  /\ chunker.options = DefaultOptions
  /\ chunker.text = ScenarioText

\* what a pass over the one document returns once its n chunks are stored
ScenarioResult(n) ==
  PipelineResult(
    DocumentReturned([NewPass("run", FALSE, FALSE) EXCEPT
                        !.docs = <<D1>>, !.pc = "upsert", !.n = n],
                     n, "upsert"))

\* the outcome of the scenario with n chunks: they are embedded by one
\* upstream request, the fresh index holds n chunks after the upsert, and
\* the pass returns documentsProcessed = 1, chunksCreated = n, errors = []
ScenarioOutcome(n) ==
  /\ Len(chunker.chunks) = n
  /\ GenerateEmbeddings(n, WellBehaved).requests = <<<<0, n - 1>>>>
  /\ ResultsLength(GenerateEmbeddings(n, WellBehaved).results) = n
  /\ CountChunks(MergeOrUpload({}, D1, 0, n - 1, 1)) = n
  /\ ScenarioResult(n) = Result(1, 1, n, <<>>)

\* C23 as stated: the scenario text gives 3 chunks, 3 embeddings in one
\* batch, 3 chunks upserted, documentsProcessed = 1, chunksCreated = 3.
C23_AsStated == ScenarioChunked => ScenarioOutcome(3)

\* C23: the scenario text gives 4 chunks (consecutive chunks overlap by 200
\* characters, so a chunk starts about every 1300 characters), 4 embeddings
\* in one batch, 4 chunks upserted, documentsProcessed = 1,
\* chunksCreated = 4, errors = [].
C23_SingleDocument == ScenarioChunked => ScenarioOutcome(4)

C23_Witness ==
  /\ ScenarioChunked
  /\ chunker.iterations = 4
  /\ chunker.chunks[4].endOffset = 4500

\* C28: chunkText terminates for every text and all options with
\* chunkSize >= 1 and chunkOverlap >= 0: every call returns, and until it
\* does the cursor grows by at least one on every iteration.
C28_ChunkTextTerminates ==
  /\ <>(chunker.pc = "returned")
  /\ [][(chunker.pc = "loop" /\ chunker'.pc = "loop") =>
          chunker'.currentPosition >= chunker.currentPosition + 1]_vars

\* a call with chunkOverlap >= chunkSize has returned after three iterations
C28_Witness ==
  /\ chunker.pc = "returned"
  /\ chunker.options.chunkOverlap >= chunker.options.chunkSize
  /\ chunker.iterations >= 3

\* C24 as stated: chunk ids are unique. Two documents with different ids
\* never share a chunk id, so after the chunks of both are upserted the index
\* holds every chunk of both.
C24_ChunkIdsUnique ==
  chunkIds.pc = "stored" =>
    /\ chunkIds.firstIds \cap chunkIds.secondIds = {}
    /\ CountChunks(chunkIds.stored)
         = chunkIds.first.chunks + chunkIds.second.chunks

\* the lines of a text that start or end with whitespace
UntrimmedLines(s) ==
  {k \in 1..Len(SplitLines(s)) :
     SplitLines(s)[k] # Trim(SplitLines(s)[k])}

\* C27 as stated: the output of cleanText has no carriage return, no run of
\* two or more spaces or tabs, no run of three or more newlines, no line and
\* no end with whitespace around it, and cleanText leaves it unchanged.
C27_CleanTextPostcondition ==
  cleaner.pc = "cleaned twice" =>
    LET out == cleaner.output
    IN  /\ \A i \in 1..Len(out) : out[i] # "\r"
        /\ \A i \in 1..Len(out) :
             out[i] \in {" ", "\t"} => RunOf(SubSeq(out, i, Len(out)), {" ", "\t"}) < 2
        /\ \A i \in 1..Len(out) : RunOf(SubSeq(out, i, Len(out)), {"\n"}) < 3
        /\ UntrimmedLines(out) = {}
        /\ out = Trim(out)
        /\ cleaner.again = out

\* C26 as stated: a request without a valid bearer token never reaches the
\* handler of a guarded endpoint, whatever its query string: it is answered
\* with 401.
C26_BearerGuardsEveryEndpoint ==
  ~PassportAccepts(guard.authorization) =>
    /\ guard.pc # "handler"
    /\ guard.pc \in {"received", "passport", "401"}

\* the documents of the last pass that processDocument returned chunks for
ProcessedDocs == {k \in 1..Len(last.fate) : last.fate[k].kind = "processed"}

\* the documents of the last pass whose text was too short or gave no chunk
ShortDocs ==
  {k \in 1..Len(last.fate) :
     /\ last.fate[k].kind # "failed"
     /\ last.fate[k].len < MinContentLength \/ last.fate[k].n = 0}

RECURSIVE ChunkCountOf(_)
ChunkCountOf(docs) ==
  IF docs = {} THEN 0
  ELSE LET k == CHOOSE x \in docs : TRUE
       IN  last.fate[k].n + ChunkCountOf(docs \ {k})

\* runIndexer returned what runIndexingPipeline returned after its loop
PipelineReturned ==
  /\ last.id # 0
  /\ last.id \notin hist.rejected
  /\ last.docs # <<>>

PassEnds(id) == id \in DOMAIN passes /\ id \notin DOMAIN passes'

\* C29: the guard is held exactly while a pass is in flight.  When a pass
\* ends, normally or because the pipeline threw, isRunning is false again
\* and runIndexer has returned a result (with the error message when the
\* pipeline threw); a runIndexer call that arrives when no pass is in
\* flight is never answered 'already running'; and nothing but
\* onModuleDestroy stops the timer, so it keeps firing after a failed pass.
C29_GuardReleased ==
  /\ [](isRunning <=> DOMAIN passes # {})
  /\ [][\A id \in 1..MaxCalls :
          PassEnds(id) =>
            /\ ~isRunning'
            /\ last'.id = id
            /\ IF passes[id].pc = "search"
               THEN last'.result \in {PipelineThrewResult("search failed"),
                                      Result(0, 0, 0, <<>>)}
               ELSE last'.result.documentsFound = Len(passes[id].docs)]_vars
  /\ [][(nCalls' = nCalls + 1 /\ DOMAIN passes = {}) =>
          /\ nCalls' \notin hist'.rejected
          /\ nCalls' \in DOMAIN passes'
          /\ isRunning']_vars
  /\ [][(intervalHandle /\ ~intervalHandle') => destroyed']_vars

\* the startup pass failed (the provider search threw), the timer was
\* installed all the same, and a pass started by a tick is in flight
C29_Witness ==
  /\ hist.startupDone = "failed"
  /\ intervalHandle
  /\ isRunning
  /\ \E id \in DOMAIN passes : passes[id].origin = "tick"

\* what an index holds, whoever wrote it: id, documentId and chunkIndex of
\* every chunk
StoredChunks(idx) ==
  UNION { {[ id |-> GenerateChunkId(r.documentId, k),
             documentId |-> r.documentId, chunkIndex |-> k ] : k \in r.lo..r.hi} :
          r \in idx }

\* C25 as stated: re-indexing is idempotent.  Replacing the chunks of an
\* unchanged document a second time (deleteDocumentChunks, then
\* upsertChunks of the same chunks) leaves the chunks the first
\* replacement left: the same ids, each with the same documentId and
\* chunkIndex.
C25_ReindexIdempotent ==
  replacer.pc = "twice" =>
    StoredChunks(replacer.twice) = StoredChunks(replacer.once)

====
